---- MODULE Spec2Model ----
(***************************************************************************)
(* Stryp Comic Studio: the generation-and-sync orchestration layer.        *)
(*                                                                         *)
(* App.tsx (src/unnamed/part_002) owns the in-memory project list, the     *)
(* debounced auto-save timer and the manual save; services/firebase.ts     *)
(* (src/unnamed/part_000) writes and publishes project documents;          *)
(* components/Studio.tsx owns the editor's local storyboard list, the      *)
(* single-panel generation handlers, the file upload and the two batches.  *)
(*                                                                         *)
(* App.tsx and types.ts call the list of a project `panels`, Studio.tsx    *)
(* and firebase.ts call it `storyboards` (subscribeToProjects maps one     *)
(* onto the other); the model has one list per project, `storyboards`,     *)
(* and wires Studio's onUpdateStoryboards / onStoryboardChange props to    *)
(* App's handleProjectUpdate / handlePanelChange.                          *)
(*                                                                         *)
(* The event loop is single threaded: every action is one handler run from *)
(* its start (or from the await it resumes at) to its next await, followed *)
(* by the render and the effects that run before the next event.           *)
(***************************************************************************)
EXTENDS Integers, Naturals, Sequences, FiniteSets, TLC

\* ------------------------------------------------------------------ bounds
MaxPanels == 2     \* storyboards a project list may hold
MaxTimers == 2     \* debounce timers armed (changes delivered to App)
MaxJobs   == 2     \* generation / upload handler runs started
MaxInst   == 2     \* times the editor is mounted
MaxBatch  == 2     \* batch runs started
MaxProjects == 1   \* projects in the store

\* ------------------------------------------------------------- data model
ProjectIds == {"A", "B"}
None == "none"

\* A media reference: absent, an inline data: URI, a local blob: URL or a
\* download URL; n names the handler run that produced it.
NoUrl == [scheme |-> "none", n |-> 0]
DataUrl(n) == [scheme |-> "data", n |-> n]
BlobUrl(n) == [scheme |-> "blob", n |-> n]
HttpsUrl(n) == [scheme |-> "https", n |-> n]

\* String.prototype.startsWith on a media reference
StartsWith(u, prefix) == u.scheme = prefix

\* JavaScript truthiness of an optional URL
Truthy(u) == u.scheme # "none"

\* a local-preview reference: inline data: URI or local blob: URL
IsLocalPreview(u) == u.scheme \in {"data", "blob"}

Panel(id, dialogue) ==
  [id |-> id, dialogue |-> dialogue,
   imageUrl |-> NoUrl, videoUrl |-> NoUrl, audioUrl |-> NoUrl,
   isGeneratingImage |-> FALSE, isGeneratingVideo |-> FALSE,
   isGeneratingAudio |-> FALSE]

Project(mode, list) == [mode |-> mode, storyboards |-> list]
NoProject == [mode |-> "none", storyboards |-> <<>>]
Exists(p) == p.mode # "none"

\* ------------------------------------------------------- sequence helpers
Range(s) == {s[i] : i \in DOMAIN s}
Ids(list) == {list[i].id : i \in DOMAIN list}
HasId(list, id) == \E i \in DOMAIN list : list[i].id = id
\* Array.prototype.find by id (the caller checks HasId first)
Find(list, id) == list[CHOOSE i \in DOMAIN list : list[i].id = id]
RECURSIVE Filter(_, _)
Filter(list, keep) ==
  IF list = <<>> THEN <<>>
  ELSE IF keep[Head(list).id] THEN <<Head(list)>> \o Filter(Tail(list), keep)
       ELSE Filter(Tail(list), keep)

\* list.map(p => p.id === id ? { ...p, [field]: value } : p)
SetField(list, id, field, value) ==
  [i \in DOMAIN list |->
     IF list[i].id = id THEN [list[i] EXCEPT ![field] = value] ELSE list[i]]

\* ---------------------------------------------------------------- state
VARIABLES
  db,                     \* Firestore: project id -> stored document
  snapshotPending,        \* an onSnapshot callback is queued for delivery
  projects,               \* App: in-memory project list (useState)
  activeProjectId,        \* App: the project shown in the studio view
  view,                   \* App: DASHBOARD or STUDIO
  timers,                 \* pending setTimeout callbacks of the auto-save
  saveTimeoutRef,         \* App: id of the timer armed last (0: null)
  mounted,                \* a Studio instance is rendered
  inst,                   \* number of Studio instances mounted so far
  storyboards,            \* Studio: the editor's local storyboard list
  uploadErrors,           \* Studio: panel ids carrying an upload-error marker
  uploadingStoryboardId,  \* Studio: upload-in-progress marker (0: null)
  isBatchGenerating,      \* Studio: visuals batch flag
  isBatchAudioGenerating, \* Studio: audio batch flag
  jobs,                   \* handler runs suspended at an await
  nJobs,                  \* handler runs started so far
  batches,                \* batch loops suspended at an await
  nBatch,                 \* batch runs started so far
  nextId,                 \* next storyboard id (Date.now())
  notice,                 \* the alert raised by the last step
  lastWrite,              \* the durable write issued by the last step
  owed,                   \* panel changes delivered to App, not yet written
  imageCall,              \* geminiService: a generateStoryboardImage invocation
  videoCall,              \* geminiService: a generateStoryboardVideo invocation
  player,                 \* the exported offline player (handleExport)
  scriptCall,             \* geminiService: a generateScript invocation
  scriptRequests,         \* Studio: handleGenerateScript runs at their await
  preview,                \* Studio: the movie preview (playPreview)
  request,                \* Studio: what a handler last passed to a generation call
  vision                  \* geminiService: a visual-description invocation

appVars == <<db, snapshotPending, projects, activeProjectId, view, timers,
             saveTimeoutRef, owed>>
studioVars == <<mounted, inst, storyboards, uploadErrors,
                uploadingStoryboardId, isBatchGenerating,
                isBatchAudioGenerating, nextId>>
jobVars == <<jobs, nJobs, batches, nBatch>>
editorVars == <<appVars, studioVars, jobVars, notice, lastWrite>>
serviceVars ==
  <<imageCall, videoCall, player, scriptCall, scriptRequests, preview,
    request, vision>>
exceptImage ==
  <<editorVars, videoCall, player, scriptCall, scriptRequests, preview,
    request, vision>>
exceptVideo ==
  <<editorVars, imageCall, player, scriptCall, scriptRequests, preview,
    request, vision>>
exceptPlayer ==
  <<editorVars, imageCall, videoCall, scriptCall, scriptRequests, preview,
    request, vision>>
exceptScript ==
  <<editorVars, imageCall, videoCall, player, scriptRequests, preview,
    request, vision>>
exceptPreview ==
  <<editorVars, imageCall, videoCall, player, scriptCall, scriptRequests,
    request, vision>>
exceptRequest ==
  <<editorVars, imageCall, videoCall, player, scriptCall, scriptRequests,
    preview, vision>>
exceptVision ==
  <<editorVars, imageCall, videoCall, player, scriptCall, scriptRequests,
    preview, request>>
exceptRequests ==
  <<imageCall, videoCall, player, scriptCall, preview, request, vision>>
vars == <<editorVars, serviceVars>>

\* ------------------------------------------------ services/firebase.ts
\* saveProjectToFirestore with the isGeneratingAudio reset left out
SaveProjectToFirestore_KeepsAudioFlag(project) ==
  [project EXCEPT !.storyboards =
     [i \in DOMAIN project.storyboards |->
        [project.storyboards[i] EXCEPT !.isGeneratingImage = FALSE,
                                       !.isGeneratingVideo = FALSE]]]

\* saveProjectToFirestore: the document handed to setDoc
SaveProjectToFirestore(project) ==
  [project EXCEPT !.storyboards =
     [i \in DOMAIN project.storyboards |->
        [project.storyboards[i] EXCEPT !.isGeneratingImage = FALSE,
                                       !.isGeneratingVideo = FALSE,
                                       !.isGeneratingAudio = FALSE]]]

\* subscribeToProjects: the list handed to the callback
SubscribeToProjects(store) ==
  [p \in ProjectIds |-> store[p]]

\* ------------------------------------------------------ Studio.tsx effects
\* the sanitization-on-load effect, keyed on project.id
SanitizeOnLoad(list) ==
  [i \in DOMAIN list |->
     [list[i] EXCEPT !.isGeneratingImage = FALSE,
                     !.isGeneratingAudio = FALSE]]

\* a merge that keeps the panels only the local list holds
SmartMerge_KeepsLocalOnly(local, server) ==
  server \o Filter(local, [id \in Ids(local) |-> ~HasId(server, id)])

\* the smart-merge updater: the server list, keeping a local data: preview
SmartMerge(local, server) ==
  [i \in DOMAIN server |->
     IF /\ HasId(local, server[i].id)
        /\ StartsWith(Find(local, server[i].id).imageUrl, "data")
        /\ (~Truthy(server[i].imageUrl)
            \/ server[i].imageUrl # Find(local, server[i].id).imageUrl)
     THEN [server[i] EXCEPT !.imageUrl = Find(local, server[i].id).imageUrl]
     ELSE server[i]]

\* the smart-merge effect without its early return on the batch flags
MergeEffect_AlwaysMerges(local, server, batchVisuals, batchAudio) ==
  SmartMerge(local, server)

\* the smart-merge effect: skipped while a batch flag is set
MergeEffect(local, server, batchVisuals, batchAudio) ==
  IF batchVisuals \/ batchAudio THEN local ELSE SmartMerge(local, server)

\* the local list of a freshly mounted Studio: useState(project.storyboards),
\* then the sanitization effect, then the smart-merge effect
MountList(list) ==
  MergeEffect(SanitizeOnLoad(list), list, FALSE, FALSE)

\* ------------------------------------------------------------- App.tsx
\* handlePanelChange without the test of the project id
HandlePanelChange_EveryProject(projs, projectId, panelId, field, value) ==
  [p \in ProjectIds |->
     [projs[p] EXCEPT
        !.storyboards = SetField(projs[p].storyboards, panelId, field, value)]]

\* handlePanelChange: the setProjects updater
HandlePanelChange(projs, projectId, panelId, field, value) ==
  [p \in ProjectIds |->
     IF p # projectId THEN projs[p]
     ELSE [projs[p] EXCEPT
             !.storyboards = SetField(projs[p].storyboards, panelId, field, value)]]

\* handleProjectUpdate: the setProjects updater
HandleProjectUpdate(projs, projectId, list) ==
  [p \in ProjectIds |->
     IF p # projectId THEN projs[p]
     ELSE [projs[p] EXCEPT !.storyboards = list]]

\* clearTimeout left out: the pending timer stays armed
ClearTimeout_Keeps(pending, ref) == pending

\* clearTimeout(saveTimeoutRef.current)
ClearTimeout(pending, ref) == {t \in pending : t.id # ref}

\* the changes of projectId the timer armed now stands for: this one and
\* those of the timer it replaces (bookkeeping, not program state)
Burst(pending, ref, projectId) ==
  IF \E t \in pending : t.id = ref /\ t.proj = projectId
  THEN 1 + (CHOOSE t \in pending : t.id = ref /\ t.proj = projectId).burst
  ELSE 1

\* triggerDebouncedSave arming a timer without clearing the pending one
TriggerDebouncedSave_NoClear(pending, ref, projectId) ==
  pending \cup
    {[id |-> ref + 1, proj |-> projectId, burst |-> Burst(pending, ref, projectId)]}

\* triggerDebouncedSave: the pending timers after clearing and re-arming
TriggerDebouncedSave(pending, ref, projectId) ==
  ClearTimeout(pending, ref) \cup
    {[id |-> ref + 1, proj |-> projectId, burst |-> Burst(pending, ref, projectId)]}

\* ------------------------------------------------------ bookkeeping
\* the stored document carries the panel change o
Carries(doc, o) ==
  /\ HasId(doc.storyboards, o.panel)
  /\ Find(doc.storyboards, o.panel)[o.field] = o.value

\* setDoc appending the written list to the stored one
SetDoc_AppendsList(old, doc) ==
  [doc EXCEPT !.storyboards = old.storyboards \o @]

\* setDoc(projectRef, cleanProject, { merge: true }): each field of the
\* written document replaces the stored one (an array is replaced whole), and
\* the written document carries every field
SetDoc(old, doc) == doc

\* setDoc(projectRef, cleanProject): the store, the queued snapshot and the
\* record of the write (clean: the in-memory project equalled the stored
\* document; after: the write of the step before)
DurableWrite(p, doc, cause, timerId, burst, cancelled) ==
  /\ db' = [db EXCEPT ![p] = SetDoc(db[p], doc)]
  /\ snapshotPending' = TRUE
  /\ lastWrite' = [cause |-> cause, proj |-> p, timer |-> timerId,
                   burst |-> burst, cancelled |-> cancelled,
                   clean |-> projects[p] = db[p], after |-> lastWrite.cause]
  /\ owed' = {o \in owed : ~(o.proj = p /\ Carries(doc, o))}

NoRecord == [cause |-> "none", proj |-> None, timer |-> 0, burst |-> 0,
             cancelled |-> FALSE, clean |-> FALSE, after |-> "none"]

NoWrite ==
  /\ UNCHANGED <<db, snapshotPending>>
  /\ lastWrite' = NoRecord

\* a panel change delivered to App supersedes earlier ones for that field
OwedAfterChange(projs, projectId, panelId, field, value) ==
  {o \in owed : ~(o.proj = projectId /\ o.panel = panelId /\ o.field = field)}
  \cup (IF Exists(projs[projectId]) /\ HasId(projs[projectId].storyboards, panelId)
        THEN {[proj |-> projectId, panel |-> panelId, field |-> field, value |-> value]}
        ELSE {})

\* a list handed over by the editor supersedes the changes of the panels it
\* deleted and of the fields it carries another value for
OwedAfterUpdate(projectId, list) ==
  {o \in owed : o.proj # projectId \/ Carries([storyboards |-> list], o)}

\* ------------------------------------------------- Studio mount / unmount
\* the Studio element is rendered: view STUDIO and activeProject found
ShouldRender(v, active, projs) ==
  v = "STUDIO" /\ active # None /\ Exists(projs[active])

Mount(list) ==
  /\ mounted' = TRUE
  /\ inst' = inst + 1
  /\ storyboards' = MountList(list)
  /\ uploadErrors' = {}
  /\ uploadingStoryboardId' = 0
  /\ isBatchGenerating' = FALSE
  /\ isBatchAudioGenerating' = FALSE

Unmount ==
  /\ mounted' = FALSE
  /\ inst' = inst
  /\ storyboards' = <<>>
  /\ uploadErrors' = {}
  /\ uploadingStoryboardId' = 0
  /\ isBatchGenerating' = FALSE
  /\ isBatchAudioGenerating' = FALSE

\* ---------------------------------------------------------------- Init
\* the store of a user with one static project of one captioned storyboard
InitialStore ==
  [p \in ProjectIds |->
     IF p = "A" THEN Project("static", <<Panel(1, "hi")>>) ELSE NoProject]

EmptyStore == [p \in ProjectIds |-> NoProject]

\* the store of a user with one project of two captioned storyboards
BatchStore(mode) ==
  [p \in ProjectIds |->
     IF p = "A" THEN Project(mode, <<Panel(1, "hi"), Panel(2, "hi")>>)
     ELSE NoProject]

\* the store of a user with two static projects of one storyboard each
TwoProjectStore ==
  [p \in ProjectIds |->
     Project("static", <<Panel(1, IF p = "A" THEN "hi" ELSE "")>>)]

\* the store of a user with one project of two storyboards: the first has
\* its visuals and a caption, the second has neither
SplitStore(mode) ==
  [p \in ProjectIds |->
     IF p = "A"
     THEN Project(mode,
            <<[Panel(1, "hi") EXCEPT !.imageUrl = HttpsUrl(0),
                                     !.videoUrl = HttpsUrl(0)],
              Panel(2, "")>>)
     ELSE NoProject]

\* the state after App is constructed over one of the stores; firstId is
\* the first storyboard id not in use
InitFrom(stores, firstId) ==
  /\ db \in stores
  /\ snapshotPending = TRUE
  /\ projects = [p \in ProjectIds |-> NoProject]
  /\ activeProjectId = None
  /\ view = "DASHBOARD"
  /\ timers = {}
  /\ saveTimeoutRef = 0
  /\ mounted = FALSE
  /\ inst = 0
  /\ storyboards = <<>>
  /\ uploadErrors = {}
  /\ uploadingStoryboardId = 0
  /\ isBatchGenerating = FALSE
  /\ isBatchAudioGenerating = FALSE
  /\ jobs = {}
  /\ nJobs = 0
  /\ batches = {}
  /\ nBatch = 0
  /\ nextId = firstId
  /\ notice = "none"
  /\ lastWrite = NoRecord
  /\ owed = {}

\* no generateStoryboardImage invocation has been made
ImageIdle ==
  [phase |-> "idle", character |-> "none", waited |-> 0, total |-> 0,
   error |-> "none"]

\* the services outside the editor are at rest
\* no player page has been exported and opened
NotExported ==
  [n |-> 0, audioAt |-> {}, screen |-> "none", currentIndex |-> 0,
   isPlaying |-> FALSE, audio |-> "null", errored |-> FALSE,
   rejected |-> FALSE, timeout |-> FALSE, stray |-> 0, stale |-> 0,
   cause |-> "none"]

\* characters.find(...) found nothing: undefined
NoCharacter == [id |-> 0, voiceId |-> ""]

\* no handler has called a generation service yet
NoRequest ==
  [kind |-> "none", characters |-> <<>>, characterId |-> 0,
   defaultNarratorVoiceId |-> "", character |-> NoCharacter, voiceId |-> ""]

\* no visual description has been asked for
NoVision ==
  [fn |-> "none", phase |-> "idle", second |-> FALSE, bio |-> <<>>,
   items |-> 0, parts |-> 0, failed |-> {}, description |-> <<>>,
   stored |-> <<>>, before |-> <<>>, alert |-> FALSE]

\* no audio element
NoAudio == [run |-> 0, i |-> 0]

\* the step before: no playback run resumed
NoResume == [run |-> 0, stopped |-> FALSE, advanced |-> FALSE, audio |-> FALSE]

\* the movie preview before the editor shows a list
NoPreview ==
  [n |-> 0, audioAt |-> {}, isPlayingRef |-> FALSE,
   isPreviewPlaying |-> FALSE, activePreviewIndex |-> 0,
   currentAudioRef |-> NoAudio, runs |-> {}, nRuns |-> 0, last |-> NoResume]

ScriptIdle ==
  [phase |-> "idle", characters |-> <<>>, data |-> <<>>, result |-> <<>>]

VideoIdle ==
  [phase |-> "idle", elapsed |-> 0, error |-> "none", handle |-> "none"]

ServicesIdle ==
  /\ imageCall = ImageIdle
  /\ videoCall = VideoIdle
  /\ player = NotExported
  /\ scriptCall = ScriptIdle
  /\ scriptRequests = {}
  /\ preview = NoPreview
  /\ request = NoRequest
  /\ vision = NoVision

Init == InitFrom({InitialStore, EmptyStore}, 2) /\ ServicesIdle

\* ------------------------------------------------------- App.tsx actions
\* the onSnapshot callback of subscribeToProjects runs setProjects
DeliverSnapshot ==
  /\ snapshotPending
  /\ snapshotPending' = FALSE
  /\ projects' = SubscribeToProjects(db)
  /\ IF mounted
     THEN IF ShouldRender(view, activeProjectId, projects')
          THEN /\ storyboards' = MergeEffect(storyboards,
                                    projects'[activeProjectId].storyboards,
                                    isBatchGenerating, isBatchAudioGenerating)
               /\ UNCHANGED <<mounted, inst, uploadErrors,
                              uploadingStoryboardId, isBatchGenerating,
                              isBatchAudioGenerating>>
          ELSE Unmount
     ELSE IF ShouldRender(view, activeProjectId, projects')
          THEN inst < MaxInst /\ Mount(projects'[activeProjectId].storyboards)
          ELSE UNCHANGED <<mounted, inst, storyboards, uploadErrors,
                           uploadingStoryboardId, isBatchGenerating,
                           isBatchAudioGenerating>>
  /\ UNCHANGED <<db, activeProjectId, view, timers, saveTimeoutRef, owed, nextId, jobVars>>
  /\ notice' = "none"
  /\ lastWrite' = NoRecord

\* the id createProject draws from Date.now(): one no project carries
NewProjectId(store) == IF Exists(store["A"]) THEN "B" ELSE "A"

\* createProject: write the new document, then show it in the studio view
CreateProject(p, mode) ==
  /\ view = "DASHBOARD"
  /\ p = NewProjectId(db)
  /\ ~Exists(db[p]) /\ ~Exists(projects[p])
  /\ Cardinality({q \in ProjectIds : Exists(db[q])}) < MaxProjects
  /\ DurableWrite(p, SaveProjectToFirestore(Project(mode, <<>>)), "create", 0, 0, FALSE)
  /\ activeProjectId' = p
  /\ view' = "STUDIO"
  /\ UNCHANGED <<projects, timers, saveTimeoutRef, studioVars, jobVars>>
  /\ notice' = "none"

\* a project card on the dashboard is clicked
OpenProject(p) ==
  /\ view = "DASHBOARD"
  /\ Exists(projects[p])
  /\ inst < MaxInst
  /\ activeProjectId' = p
  /\ view' = "STUDIO"
  /\ Mount(projects[p].storyboards)
  /\ UNCHANGED <<db, snapshotPending, projects, timers, saveTimeoutRef,
                 owed, nextId, jobVars>>
  /\ notice' = "none"
  /\ lastWrite' = NoRecord

\* the sidebar's Dashboard button: setView without saving
SetViewDashboard ==
  /\ view = "STUDIO"
  /\ view' = "DASHBOARD"
  /\ Unmount
  /\ UNCHANGED <<db, snapshotPending, projects, activeProjectId, timers,
                 saveTimeoutRef, owed, nextId, jobVars>>
  /\ notice' = "none"
  /\ lastWrite' = NoRecord

\* deleteDoc(doc(db, `users/${userId}/projects`, projectId))
DeleteProjectFromFirestore(store, projectId) ==
  [store EXCEPT ![projectId] = NoProject]

\* handleDeleteProject, the confirmation accepted: the document is deleted;
\* App's list changes only when the resulting snapshot is delivered
HandleDeleteProject(p) ==
  /\ view = "DASHBOARD"
  /\ Exists(projects[p])
  /\ db' = DeleteProjectFromFirestore(db, p)
  /\ snapshotPending' = TRUE
  /\ owed' = {o \in owed : o.proj # p}
  /\ lastWrite' = NoRecord
  /\ UNCHANGED <<projects, activeProjectId, view, timers, saveTimeoutRef,
                 studioVars, nextId, jobVars>>
  /\ notice' = "none"

\* the setTimeout callback armed by triggerDebouncedSave
FireTimer(t) ==
  /\ t \in timers
  /\ timers' = timers \ {t}
  /\ IF Exists(projects[t.proj])
     THEN DurableWrite(t.proj, SaveProjectToFirestore(projects[t.proj]),
                          "debounce", t.id, t.burst, FALSE)
     ELSE NoWrite /\ UNCHANGED owed
  /\ UNCHANGED <<projects, activeProjectId, view, saveTimeoutRef, studioVars,
                 jobVars>>
  /\ notice' = "none"

\* handleForceSave: cancel the pending auto-save, write the active project
HandleForceSave(cause) ==
  /\ activeProjectId # None
  /\ timers' = ClearTimeout(timers, saveTimeoutRef)
  /\ IF Exists(projects[activeProjectId])
     THEN DurableWrite(activeProjectId,
                       SaveProjectToFirestore(projects[activeProjectId]),
                       cause, 0, 0, timers' # timers)
     ELSE NoWrite /\ UNCHANGED owed

\* Studio's Save Project button: handleManualSave -> onSave
OnSave ==
  /\ mounted
  /\ HandleForceSave("manual")
  /\ UNCHANGED <<projects, activeProjectId, view, saveTimeoutRef, studioVars,
                 jobVars>>
  /\ notice' = "none"

\* Studio's back button: onBack = handleForceSave, then setView(DASHBOARD)
OnBack ==
  /\ mounted
  /\ HandleForceSave("back")
  /\ view' = "DASHBOARD"
  /\ Unmount
  /\ UNCHANGED <<projects, activeProjectId, saveTimeoutRef, nextId, jobVars>>
  /\ notice' = "none"

\* onUpdateStoryboards: handleProjectUpdate, then triggerDebouncedSave
OnUpdateStoryboards(projectId, list) ==
  /\ projects' = HandleProjectUpdate(projects, projectId, list)
  /\ timers' = TriggerDebouncedSave(timers, saveTimeoutRef, projectId)
  /\ saveTimeoutRef' = saveTimeoutRef + 1
  /\ owed' = OwedAfterUpdate(projectId, list)
  /\ NoWrite

\* onStoryboardChange: handlePanelChange, then triggerDebouncedSave
OnStoryboardChange(projectId, panelId, field, value) ==
  /\ projects' = HandlePanelChange(projects, projectId, panelId, field, value)
  /\ timers' = TriggerDebouncedSave(timers, saveTimeoutRef, projectId)
  /\ saveTimeoutRef' = saveTimeoutRef + 1
  /\ owed' = OwedAfterChange(projects, projectId, panelId, field, value)
  /\ NoWrite

\* ---------------------------------------------- Studio.tsx: list editing
\* updateLocalStoryboards: setStoryboards, onUpdateStoryboards, and the
\* smart-merge effect the new project.storyboards triggers
UpdateLocalStoryboards(list) ==
  /\ saveTimeoutRef < MaxTimers
  /\ OnUpdateStoryboards(activeProjectId, list)
  /\ storyboards' = MergeEffect(list, list, isBatchGenerating,
                                isBatchAudioGenerating)
  /\ UNCHANGED <<activeProjectId, view, mounted, inst, uploadErrors,
                 uploadingStoryboardId, isBatchGenerating,
                 isBatchAudioGenerating, nJobs, batches, nBatch>>
  /\ notice' = "none"

Texts == {"", "hi"}

\* the dialogue textarea's onChange
EditDialogue(id, text) ==
  /\ mounted
  /\ HasId(storyboards, id)
  /\ Find(storyboards, id).dialogue # text
  /\ UpdateLocalStoryboards(SetField(storyboards, id, "dialogue", text))
  /\ UNCHANGED <<nextId, jobs>>

\* the Add Blank Storyboard button
AddBlankStoryboard ==
  /\ mounted
  /\ Len(storyboards) < MaxPanels
  /\ UpdateLocalStoryboards(Append(storyboards, Panel(nextId, "")))
  /\ nextId' = nextId + 1
  /\ UNCHANGED jobs

\* deleteStoryboard
DeleteStoryboard(id) ==
  /\ mounted
  /\ HasId(storyboards, id)
  /\ UpdateLocalStoryboards(
       Filter(storyboards, [i \in Ids(storyboards) |-> i # id]))
  /\ jobs' = {IF j.proj = activeProjectId /\ j.panel = id
              THEN [j EXCEPT !.disturbed = TRUE] ELSE j : j \in jobs}
  /\ UNCHANGED nextId

\* --------------------------------- Studio.tsx: single-panel generation
FlagOf(kind) ==
  CASE kind = "image" -> "isGeneratingImage"
    [] kind = "video" -> "isGeneratingVideo"
    [] kind = "audio" -> "isGeneratingAudio"

UrlOf(kind) ==
  CASE kind = "image" -> "imageUrl"
    [] kind = "file"  -> "imageUrl"
    [] kind = "video" -> "videoUrl"
    [] kind = "audio" -> "audioUrl"

\* the handler run's setState calls still reach a rendered component
Live(instance) == mounted /\ instance = inst

HasVisual(panel) == Truthy(panel.imageUrl) \/ Truthy(panel.videoUrl)

\* the guard of handleGenerateImage / handleGenerateVideo without its test of
\* the audio batch flag
VisualRefused_IgnoresBatch(closure, id, batchAudio) ==
  Find(closure, id).isGeneratingAudio

\* the guard of handleGenerateImage / handleGenerateVideo, on the handler's
\* closure: "Please wait for audio generation to finish."
VisualRefused(closure, id, batchAudio) ==
  Find(closure, id).isGeneratingAudio \/ batchAudio

\* the guard of handleGenerateAudio, on the handler's closure:
\* "Please wait for image generation to finish."
AudioRefused(closure, id, batchVisuals) ==
  Find(closure, id).isGeneratingImage \/ batchVisuals

\* the guards of the handler a batch loop calls, evaluated on the closure of
\* the render in which the batch was started (both batch flags false there)
ItemRefused(kind, closure, id) ==
  IF kind = "audio" THEN AudioRefused(closure, id, FALSE)
  ELSE VisualRefused(closure, id, FALSE)

\* a handler run; batch names the batch loop that called the handler ("none":
\* a button of the panel) and, like disturbed, is bookkeeping
Job(id, kind, panel, proj, instance, stage, silent, batch) ==
  [id |-> id, kind |-> kind, panel |-> panel, proj |-> proj,
   inst |-> instance, stage |-> stage, silent |-> silent, batch |-> batch,
   disturbed |-> FALSE]

\* two handler runs write the image of the same panel
SameImage(j, k) ==
  /\ j.proj = k.proj /\ j.panel = k.panel
  /\ j.kind \in {"image", "file"} /\ k.kind \in {"image", "file"}

\* the suspended runs once run new has started; disturbed records that
\* during a run another run on the same image was in flight or the panel
\* was deleted (bookkeeping, not program state)
Started(js, new) ==
  {IF SameImage(j, new) THEN [j EXCEPT !.disturbed = TRUE] ELSE j : j \in js}
  \cup {[new EXCEPT !.disturbed = \E j \in js : SameImage(j, new)]}

\* the first segment of a generation handler that passed its guards
StartGeneration(kind, id, proj, instance, silent, batch) ==
  /\ nJobs < MaxJobs
  /\ nJobs' = nJobs + 1
  /\ jobs' = Started(jobs, Job(nJobs + 1, kind, id, proj, instance, "gen", silent,
                                  batch))
  /\ IF Live(instance)
     THEN /\ storyboards' = SetField(storyboards, id, FlagOf(kind), TRUE)
          /\ uploadErrors' = IF kind = "audio" THEN uploadErrors
                             ELSE uploadErrors \ {id}
     ELSE UNCHANGED <<storyboards, uploadErrors>>

\* the AI Generate Image / Regenerate buttons of a static project
HandleGenerateImage(id) ==
  /\ mounted
  /\ projects[activeProjectId].mode = "static"
  /\ HasId(storyboards, id)
  /\ HasVisual(Find(storyboards, id))
     \/ (~Find(storyboards, id).isGeneratingImage /\ uploadingStoryboardId # id)
  /\ IF VisualRefused(storyboards, id, isBatchAudioGenerating)
     THEN /\ notice' = "wait_audio_finish"
          /\ UNCHANGED <<storyboards, uploadErrors, jobs, nJobs>>
     ELSE /\ StartGeneration("image", id, activeProjectId, inst, FALSE, "none")
          /\ notice' = "none"
  /\ lastWrite' = NoRecord
  /\ UNCHANGED <<appVars, mounted, inst, uploadingStoryboardId,
                 isBatchGenerating, isBatchAudioGenerating, nextId, batches,
                 nBatch>>

\* the AI Generate Video / Regenerate buttons of a video project
HandleGenerateVideo(id) ==
  /\ mounted
  /\ projects[activeProjectId].mode = "video"
  /\ HasId(storyboards, id)
  /\ HasVisual(Find(storyboards, id))
     \/ (~Find(storyboards, id).isGeneratingVideo /\ uploadingStoryboardId # id)
  /\ IF VisualRefused(storyboards, id, isBatchAudioGenerating)
     THEN /\ notice' = "wait_audio_finish"
          /\ UNCHANGED <<storyboards, uploadErrors, jobs, nJobs>>
     ELSE /\ StartGeneration("video", id, activeProjectId, inst, FALSE, "none")
          /\ notice' = "none"
  /\ lastWrite' = NoRecord
  /\ UNCHANGED <<appVars, mounted, inst, uploadingStoryboardId,
                 isBatchGenerating, isBatchAudioGenerating, nextId, batches,
                 nBatch>>

\* the microphone button (disabled while the panel generates audio or an
\* image, or has no dialogue); the handler is also run with the image flag
\* set, where its own guard decides
HandleGenerateAudio(id) ==
  /\ mounted
  /\ HasId(storyboards, id)
  /\ ~Find(storyboards, id).isGeneratingAudio
  /\ Find(storyboards, id).dialogue # ""
  /\ IF AudioRefused(storyboards, id, isBatchGenerating)
     THEN /\ notice' = "wait_image_finish"
          /\ UNCHANGED <<storyboards, uploadErrors, jobs, nJobs>>
     ELSE /\ StartGeneration("audio", id, activeProjectId, inst, FALSE, "none")
          /\ notice' = "none"
  /\ lastWrite' = NoRecord
  /\ UNCHANGED <<appVars, mounted, inst, uploadingStoryboardId,
                 isBatchGenerating, isBatchAudioGenerating, nextId, batches,
                 nBatch>>

\* triggerFileUpload and handleFileChange up to the upload's await
HandleFileChange(id) ==
  /\ mounted
  /\ HasId(storyboards, id)
  /\ HasVisual(Find(storyboards, id))
     \/ (/\ ~Find(storyboards, id).isGeneratingImage
         /\ ~Find(storyboards, id).isGeneratingVideo
         /\ uploadingStoryboardId # id)
  /\ nJobs < MaxJobs
  /\ nJobs' = nJobs + 1
  /\ jobs' = Started(jobs, Job(nJobs + 1, "file", id, activeProjectId, inst,
                             "upload", FALSE, "none"))
  /\ uploadingStoryboardId' = id
  /\ uploadErrors' = uploadErrors \ {id}
  /\ storyboards' = SetField(storyboards, id, "imageUrl", BlobUrl(nJobs + 1))
  /\ lastWrite' = NoRecord
  /\ UNCHANGED <<appVars, mounted, inst, isBatchGenerating,
                 isBatchAudioGenerating, nextId, batches, nBatch>>
  /\ notice' = "none"

\* a batch loop that stays suspended when the run it awaits returns
Resume_Never(bs, jobId) == bs

\* a batch loop awaiting the handler run resumes when the run returns
Resume(bs, jobId) ==
  {IF b.awaiting = jobId THEN [b EXCEPT !.awaiting = 0] ELSE b : b \in bs}

\* the setStoryboards on generation success without the preview
AfterGeneration_NoPreview(list, j) ==
  SetField(list, j.panel, FlagOf(j.kind), FALSE)

\* the local list after the handler's setStoryboards on generation success
\* (image, video): the data URL as preview, the generating flag cleared
AfterGeneration(list, j) ==
  SetField(SetField(list, j.panel, UrlOf(j.kind), DataUrl(j.id)),
           j.panel, FlagOf(j.kind), FALSE)

\* the generation call resolves
GenerationSucceeds(j) ==
  /\ j \in jobs /\ j.stage = "gen"
  /\ jobs' = (jobs \ {j}) \cup {[j EXCEPT !.stage = "upload"]}
  /\ IF Live(j.inst) /\ j.kind # "audio"
     THEN /\ storyboards' = AfterGeneration(storyboards, j)
          /\ uploadingStoryboardId' = j.panel
     ELSE UNCHANGED <<storyboards, uploadingStoryboardId>>
  /\ lastWrite' = NoRecord
  /\ UNCHANGED <<appVars, mounted, inst, uploadErrors, isBatchGenerating,
                 isBatchAudioGenerating, nextId, nJobs, batches, nBatch>>
  /\ notice' = "none"

\* the generation call rejects (error, quota, timeout)
GenerationFails(j) ==
  /\ j \in jobs /\ j.stage = "gen"
  /\ jobs' = jobs \ {j}
  /\ batches' = Resume(batches, j.id)
  /\ notice' = IF j.silent THEN "none" ELSE "failed"
  /\ IF Live(j.inst)
     THEN /\ storyboards' = SetField(storyboards, j.panel, FlagOf(j.kind), FALSE)
          /\ uploadingStoryboardId' =
               IF j.kind = "audio" THEN uploadingStoryboardId ELSE 0
     ELSE UNCHANGED <<storyboards, uploadingStoryboardId>>
  /\ lastWrite' = NoRecord
  /\ UNCHANGED <<appVars, mounted, inst, uploadErrors, isBatchGenerating,
                 isBatchAudioGenerating, nextId, nJobs, nBatch>>

\* the local list after the handler's own setStoryboards on upload success
AfterUpload(list, j) ==
  IF j.kind = "audio"
  THEN SetField(SetField(list, j.panel, "audioUrl", HttpsUrl(j.id)),
                j.panel, "isGeneratingAudio", FALSE)
  ELSE SetField(list, j.panel, UrlOf(j.kind), HttpsUrl(j.id))

\* the upload resolves with the download URL
UploadSucceeds(j) ==
  /\ j \in jobs /\ j.stage = "upload"
  /\ saveTimeoutRef < MaxTimers
  /\ jobs' = jobs \ {j}
  /\ batches' = Resume(batches, j.id)
  /\ OnStoryboardChange(j.proj, j.panel, UrlOf(j.kind), HttpsUrl(j.id))
  /\ storyboards' =
       LET own == IF Live(j.inst) THEN AfterUpload(storyboards, j)
                  ELSE storyboards
       IN IF mounted /\ activeProjectId = j.proj
          THEN MergeEffect(own, projects'[j.proj].storyboards,
                           isBatchGenerating, isBatchAudioGenerating)
          ELSE own
  /\ uploadingStoryboardId' =
       IF Live(j.inst) /\ j.kind # "audio" THEN 0 ELSE uploadingStoryboardId
  /\ UNCHANGED <<activeProjectId, view, mounted, inst, uploadErrors,
                 isBatchGenerating, isBatchAudioGenerating, nextId, nJobs,
                 nBatch>>
  /\ notice' = "none"

\* the catch block of the upload: the panel's upload-error marker is set
MarkUploadError(errors, id) == errors \cup {id}

\* the upload rejects
UploadFails(j) ==
  /\ j \in jobs /\ j.stage = "upload"
  /\ jobs' = jobs \ {j}
  /\ batches' = Resume(batches, j.id)
  /\ notice' = IF j.kind = "audio" /\ ~j.silent THEN "failed" ELSE "none"
  /\ IF Live(j.inst)
     THEN IF j.kind = "audio"
          THEN /\ storyboards' =
                    SetField(storyboards, j.panel, "isGeneratingAudio", FALSE)
               /\ UNCHANGED <<uploadErrors, uploadingStoryboardId>>
          ELSE /\ uploadErrors' = MarkUploadError(uploadErrors, j.panel)
               /\ uploadingStoryboardId' = 0
               /\ UNCHANGED storyboards
     ELSE UNCHANGED <<storyboards, uploadErrors, uploadingStoryboardId>>
  /\ lastWrite' = NoRecord
  /\ UNCHANGED <<appVars, mounted, inst, isBatchGenerating,
                 isBatchAudioGenerating, nextId, nJobs, nBatch>>

\* ------------------------------------------------- Studio.tsx: batches
IdList(list) == [i \in DOMAIN list |-> list[i].id]

\* the selection of handleGenerateAllVisuals without its test of the
\* generating flag
VisualsToGenerate_IgnoresFlag(list, isVideoMode) ==
  Filter(list, [id \in Ids(list) |->
     IF isVideoMode THEN ~Truthy(Find(list, id).videoUrl)
     ELSE ~Truthy(Find(list, id).imageUrl)])

\* the panels handleGenerateAllVisuals selects
VisualsToGenerate(list, isVideoMode) ==
  Filter(list, [id \in Ids(list) |->
     IF isVideoMode
     THEN ~Truthy(Find(list, id).videoUrl) /\ ~Find(list, id).isGeneratingVideo
     ELSE ~Truthy(Find(list, id).imageUrl) /\ ~Find(list, id).isGeneratingImage])

\* the panels handleGenerateAllAudio selects
AudioToGenerate(list) ==
  Filter(list, [id \in Ids(list) |->
     /\ Find(list, id).dialogue # ""
     /\ ~Truthy(Find(list, id).audioUrl)
     /\ ~Find(list, id).isGeneratingAudio])

Batch(kind, proj, instance, isVideoMode, items, closure, awaiting) ==
  [kind |-> kind, proj |-> proj, inst |-> instance, video |-> isVideoMode,
   items |-> items, closure |-> closure, awaiting |-> awaiting]

\* what a batch item runs: handleGenerateVideo / handleGenerateImage /
\* handleGenerateAudio(id, true)
ItemKind(kind, isVideoMode) ==
  IF kind = "audio" THEN "audio" ELSE IF isVideoMode THEN "video" ELSE "image"

\* the loop awaits the handler run (video, audio); an image run is not awaited
Awaited(kind, isVideoMode) == kind = "audio" \/ isVideoMode

\* one loop iteration up to its await: the handler call for the next item
SubmitItem(kind, proj, instance, isVideoMode, items, closure) ==
  LET id == Head(items)
      refused == ItemRefused(kind, closure, id)
  IN /\ IF refused
        THEN /\ notice' = IF kind = "audio" THEN "none" ELSE "wait_audio_finish"
             /\ UNCHANGED <<storyboards, uploadErrors, jobs, nJobs>>
        ELSE /\ StartGeneration(ItemKind(kind, isVideoMode), id, proj, instance,
                                kind = "audio", kind)
             /\ notice' = "none"
     /\ batches' = {b \in batches : ~(b.inst = instance /\ b.kind = kind)} \cup
          {Batch(kind, proj, instance, isVideoMode, Tail(items), closure,
                 IF ~refused /\ Awaited(kind, isVideoMode) THEN nJobs + 1 ELSE 0)}

\* the batch handlers without their opposing-flag guard
BatchRefused_Never(opposing) == FALSE

\* the guard of handleGenerateAllVisuals / handleGenerateAllAudio on the
\* opposing batch flag: "Please wait for ... generation to complete."
BatchRefused(opposing) == opposing

\* the Generate Visuals button (disabled while either batch flag is set);
\* the handler is also run with the opposing flag set, where its own guard
\* decides; confirmed is the answer to the confirm() dialog
HandleGenerateAllVisuals(confirmed) ==
  /\ mounted
  /\ lastWrite' = NoRecord
  /\ LET isVideoMode == projects[activeProjectId].mode = "video"
         toGenerate == VisualsToGenerate(storyboards, isVideoMode)
     IN IF BatchRefused(isBatchAudioGenerating)
        THEN /\ notice' = "wait_audio_complete"
             /\ UNCHANGED <<storyboards, uploadErrors, isBatchGenerating, jobVars>>
        ELSE /\ ~isBatchGenerating
             /\ IF toGenerate = <<>>
                THEN /\ notice' = "nothing_to_do"
                     /\ UNCHANGED <<storyboards, uploadErrors,
                                    isBatchGenerating, jobVars>>
                ELSE IF ~confirmed
                THEN /\ notice' = "declined"
                     /\ UNCHANGED <<storyboards, uploadErrors,
                                    isBatchGenerating, jobVars>>
                ELSE /\ nBatch < MaxBatch
                     /\ nBatch' = nBatch + 1
                     /\ isBatchGenerating' = TRUE
                     /\ SubmitItem("visuals", activeProjectId, inst, isVideoMode,
                                   IdList(toGenerate), storyboards)
  /\ UNCHANGED <<appVars, mounted, inst, uploadingStoryboardId,
                 isBatchAudioGenerating, nextId>>

\* the Generate Audio button (disabled while either batch flag is set); the
\* handler is also run with the opposing flag set, where its own guard
\* decides; confirmed is the answer to the confirm() dialog
HandleGenerateAllAudio(confirmed) ==
  /\ mounted
  /\ lastWrite' = NoRecord
  /\ LET toGenerate == AudioToGenerate(storyboards)
     IN IF BatchRefused(isBatchGenerating)
        THEN /\ notice' = "wait_image_complete"
             /\ UNCHANGED <<storyboards, uploadErrors, isBatchAudioGenerating,
                            jobVars>>
        ELSE /\ ~isBatchAudioGenerating
             /\ IF toGenerate = <<>>
                THEN /\ notice' = "nothing_to_do"
                     /\ UNCHANGED <<storyboards, uploadErrors,
                                    isBatchAudioGenerating, jobVars>>
                ELSE IF ~confirmed
                THEN /\ notice' = "declined"
                     /\ UNCHANGED <<storyboards, uploadErrors,
                                    isBatchAudioGenerating, jobVars>>
                ELSE /\ nBatch < MaxBatch
                     /\ nBatch' = nBatch + 1
                     /\ isBatchAudioGenerating' = TRUE
                     /\ SubmitItem("audio", activeProjectId, inst, FALSE,
                                   IdList(toGenerate), storyboards)
  /\ UNCHANGED <<appVars, mounted, inst, uploadingStoryboardId,
                 isBatchGenerating, nextId>>

\* a loop whose finally block leaves the flag as it is
Finally_Keeps(flag, own) == flag

\* finally { setIsBatchGenerating(false) } / setIsBatchAudioGenerating(false):
\* the flag of the loop's own kind is cleared
Finally(flag, own) == IF own THEN FALSE ELSE flag

\* the stagger wait of a batch loop elapses: the next iteration, or the
\* finally block once the selection is exhausted
BatchStep(b) ==
  /\ b \in batches
  /\ b.awaiting = 0
  /\ lastWrite' = NoRecord
  /\ IF b.items # <<>>
     THEN /\ SubmitItem(b.kind, b.proj, b.inst, b.video, b.items, b.closure)
          /\ UNCHANGED <<isBatchGenerating, isBatchAudioGenerating, nBatch>>
     ELSE /\ batches' = batches \ {b}
          /\ notice' = "none"
          /\ IF Live(b.inst)
             THEN /\ isBatchGenerating' =
                       Finally(isBatchGenerating, b.kind = "visuals")
                  /\ isBatchAudioGenerating' =
                       Finally(isBatchAudioGenerating, b.kind = "audio")
                  /\ storyboards' = MergeEffect(storyboards,
                       projects[activeProjectId].storyboards,
                       isBatchGenerating', isBatchAudioGenerating')
             ELSE UNCHANGED <<storyboards, isBatchGenerating,
                              isBatchAudioGenerating>>
          /\ UNCHANGED <<uploadErrors, jobs, nJobs, nBatch>>
  /\ UNCHANGED <<appVars, mounted, inst, uploadingStoryboardId, nextId>>

\* the format picked in the New Project dialog
Modes == {"static", "video"}

Next ==
  \/ DeliverSnapshot /\ UNCHANGED serviceVars
  \/ \E p \in ProjectIds, m \in Modes : CreateProject(p, m) /\ UNCHANGED serviceVars
  \/ \E p \in ProjectIds : OpenProject(p) /\ UNCHANGED serviceVars
  \/ SetViewDashboard /\ UNCHANGED serviceVars
  \/ \E t \in timers : FireTimer(t) /\ UNCHANGED serviceVars
  \/ OnSave /\ UNCHANGED serviceVars
  \/ OnBack /\ UNCHANGED serviceVars
  \/ \E id \in 1..nextId, text \in Texts : EditDialogue(id, text) /\ UNCHANGED serviceVars
  \/ AddBlankStoryboard /\ UNCHANGED serviceVars
  \/ \E id \in 1..nextId : DeleteStoryboard(id) /\ UNCHANGED serviceVars
  \/ \E id \in 1..nextId : HandleGenerateImage(id) /\ UNCHANGED serviceVars
  \/ \E id \in 1..nextId : HandleGenerateVideo(id) /\ UNCHANGED serviceVars
  \/ \E id \in 1..nextId : HandleGenerateAudio(id) /\ UNCHANGED serviceVars
  \/ \E id \in 1..nextId : HandleFileChange(id) /\ UNCHANGED serviceVars
  \/ \E j \in jobs : GenerationSucceeds(j) /\ UNCHANGED serviceVars
  \/ \E j \in jobs : GenerationFails(j) /\ UNCHANGED serviceVars
  \/ \E j \in jobs : UploadSucceeds(j) /\ UNCHANGED serviceVars
  \/ \E j \in jobs : UploadFails(j) /\ UNCHANGED serviceVars

Spec == Init /\ [][Next]_vars

\* ---------------------------------------------------- the batch sequencer
\* the editor of a two-storyboard project with its batches
InitBatch == InitFrom({BatchStore(m) : m \in Modes}, 3) /\ ServicesIdle

NextBatch ==
  \/ DeliverSnapshot /\ UNCHANGED serviceVars
  \/ \E p \in ProjectIds : OpenProject(p) /\ UNCHANGED serviceVars
  \/ SetViewDashboard /\ UNCHANGED serviceVars
  \/ \E t \in timers : FireTimer(t) /\ UNCHANGED serviceVars
  \/ OnSave /\ UNCHANGED serviceVars
  \/ \E id \in 1..nextId : HandleGenerateImage(id) /\ UNCHANGED serviceVars
  \/ \E id \in 1..nextId : HandleGenerateVideo(id) /\ UNCHANGED serviceVars
  \/ \E id \in 1..nextId : HandleGenerateAudio(id) /\ UNCHANGED serviceVars
  \/ \E ok \in BOOLEAN : HandleGenerateAllVisuals(ok) /\ UNCHANGED serviceVars
  \/ \E ok \in BOOLEAN : HandleGenerateAllAudio(ok) /\ UNCHANGED serviceVars
  \/ \E b \in batches : BatchStep(b) /\ UNCHANGED serviceVars
  \/ \E j \in jobs : GenerationSucceeds(j) /\ UNCHANGED serviceVars
  \/ \E j \in jobs : GenerationFails(j) /\ UNCHANGED serviceVars
  \/ \E j \in jobs : UploadSucceeds(j) /\ UNCHANGED serviceVars
  \/ \E j \in jobs : UploadFails(j) /\ UNCHANGED serviceVars

SpecBatch == InitBatch /\ [][NextBatch]_vars

\* ------------------------------------- services/geminiService.ts: images
\* Time is counted in units of 30 s.
FetchTimeout == 2   \* withTimeout(..., 60000) around a reference-image fetch
ImageTimeout == 3   \* withTimeout(..., 90000) around the image request
MaxWait == 4        \* units for which a call without a timeout is followed

\* the character argument: none; one without imageUrl; one with imageUrl;
\* one with imageUrl and imageUrl2
Characters == {"none", "bio", "one", "two"}

ImagePending == {"fetch1", "fetch2", "vision", "generate"}
ImageSettled == {"resolved", "rejected"}

\* the time after which the timer racing the awaited call fires; the vision
\* request of getCharacterVisualDescription is awaited without a timer
WaitLimit(phase) ==
  CASE phase \in {"fetch1", "fetch2"} -> FetchTimeout
    [] phase = "generate" -> ImageTimeout
    [] OTHER -> MaxWait

Await(call, phase) == [call EXCEPT !.phase = phase, !.waited = 0]

\* generateStoryboardImage is called: with a character that has a reference
\* image, getCharacterVisualDescription fetches it first
GenerateStoryboardImage(c) ==
  /\ imageCall.phase = "idle"
  /\ imageCall' = Await([imageCall EXCEPT !.character = c],
                        IF c \in {"one", "two"} THEN "fetch1" ELSE "generate")
  /\ UNCHANGED exceptImage

\* 30 s pass while the invocation is suspended at an await
ImageTick ==
  /\ imageCall.phase \in ImagePending
  /\ imageCall.waited < WaitLimit(imageCall.phase)
  /\ imageCall' = [imageCall EXCEPT !.waited = @ + 1, !.total = @ + 1]
  /\ UNCHANGED exceptImage

\* where getCharacterVisualDescription goes on after a fetch: a failed first
\* fetch ends it with the bio, a failed second fetch is only logged
AfterFetch(call, ok) ==
  IF call.phase = "fetch1"
  THEN IF ~ok THEN Await(call, "generate")
       ELSE IF call.character = "two" THEN Await(call, "fetch2")
       ELSE Await(call, "vision")
  ELSE Await(call, "vision")

\* fetchMediaAsBase64 resolves or rejects
FetchSettles(ok) ==
  /\ imageCall.phase \in {"fetch1", "fetch2"}
  /\ imageCall' = AfterFetch(imageCall, ok)
  /\ UNCHANGED exceptImage

\* the 60 s timer of fetchMediaAsBase64 rejects the fetch
FetchTimesOut ==
  /\ imageCall.phase \in {"fetch1", "fetch2"}
  /\ imageCall.waited = FetchTimeout
  /\ imageCall' = AfterFetch(imageCall, FALSE)
  /\ UNCHANGED exceptImage

\* the vision request of getCharacterVisualDescription resolves or rejects:
\* either way the image request is made next
VisionSettles ==
  /\ imageCall.phase = "vision"
  /\ imageCall' = Await(imageCall, "generate")
  /\ UNCHANGED exceptImage

\* what the image request can answer
ImageAnswers == {"image", "no_image", "quota", "error"}

\* the result of generateStoryboardImage for an answer
ImageResult(call, answer) ==
  CASE answer = "image" -> [call EXCEPT !.phase = "resolved"]
    [] answer = "quota" -> [call EXCEPT !.phase = "rejected", !.error = "quota"]
    [] OTHER -> [call EXCEPT !.phase = "rejected", !.error = "error"]

\* the image request resolves or rejects
ImageSettles(answer) ==
  /\ imageCall.phase = "generate"
  /\ imageCall' = ImageResult(imageCall, answer)
  /\ UNCHANGED exceptImage

\* the 90 s timer of withTimeout rejects: "Image generation timed out"
ImageTimesOut ==
  /\ imageCall.phase = "generate"
  /\ imageCall.waited = ImageTimeout
  /\ imageCall' = [imageCall EXCEPT !.phase = "rejected", !.error = "timeout"]
  /\ UNCHANGED exceptImage

InitImage == InitFrom({EmptyStore}, 2) /\ ServicesIdle

NextImage ==
  \/ \E c \in Characters : GenerateStoryboardImage(c)
  \/ ImageTick
  \/ \E ok \in BOOLEAN : FetchSettles(ok)
  \/ FetchTimesOut
  \/ VisionSettles
  \/ \E answer \in ImageAnswers : ImageSettles(answer)
  \/ ImageTimesOut

\* time passes and armed timers fire; no network call is bound to answer
SpecImage ==
  /\ InitImage
  /\ [][NextImage]_vars
  /\ WF_vars(ImageTick)
  /\ WF_vars(FetchTimesOut)
  /\ WF_vars(ImageTimesOut)

\* ------------------------------------------------ generateStoryboardVideo
\* Time is counted in units of POLL_INTERVAL (10 s).
PollInterval == 1
MaxPollTime == 42     \* MAX_POLL_TIME = 420000 ms
MaxElapsed == 44      \* units for which the clock of a poll loop is followed

VideoPending == {"submit", "fetch", "sleep"}
VideoSettled == {"resolved", "rejected"}

\* generateStoryboardVideo is called: the generation request is made
GenerateStoryboardVideo ==
  /\ videoCall.phase = "idle"
  /\ videoCall' = [videoCall EXCEPT !.phase = "submit"]
  /\ UNCHANGED exceptVideo

\* the top of the poll loop: past the ceiling it throws, otherwise the next
\* poll request is made
LoopTop(call) ==
  IF call.elapsed > MaxPollTime
  THEN [call EXCEPT !.phase = "rejected", !.error = "timeout"]
  ELSE [call EXCEPT !.phase = "fetch"]

\* where the operation handle returned by generateVideos carries its name:
\* in name, only in operation.name, only in metadata.name, nowhere
OperationHandles == {"name", "operation.name", "metadata.name", "none"}

\* generateVideos answers. operationName is read from generationOp.name
\* once; a name found in a nested property is written back to
\* generationOp.name, but the poll URL is built from operationName, which is
\* still undefined then: operationName.startsWith throws a TypeError. With
\* the name in generationOp.name the poll loop is entered (startTime =
\* Date.now()); with no name anywhere the call throws "operation name is
\* missing"
SubmitSettles(handle) ==
  /\ videoCall.phase = "submit"
  /\ videoCall' =
       CASE handle = "name" ->
              LoopTop([videoCall EXCEPT !.elapsed = 0, !.handle = handle])
         [] handle = "none" ->
              [videoCall EXCEPT !.phase = "rejected", !.handle = handle,
                                !.error = "missing_name"]
         [] OTHER ->
              [videoCall EXCEPT !.phase = "rejected", !.handle = handle,
                                !.error = "type_error"]
  /\ UNCHANGED exceptVideo

\* 10 s pass while the poll request is outstanding
PollTick ==
  /\ videoCall.phase = "fetch"
  /\ videoCall.elapsed < MaxElapsed
  /\ videoCall' = [videoCall EXCEPT !.elapsed = @ + PollInterval]
  /\ UNCHANGED exceptVideo

\* what a poll request can come back with: the operation done (with a
\* video, with an error, with no response), the operation pending, a non-OK
\* HTTP status, a rejected fetch
PollAnswers == {"video", "op_error", "empty", "pending", "not_ok", "failed"}
PollDone == {"video", "op_error", "empty"}

\* the result of generateStoryboardVideo once a poll reported done
VideoResult(call, answer) ==
  IF answer = "video" THEN [call EXCEPT !.phase = "resolved"]
  ELSE [call EXCEPT !.phase = "rejected", !.error = "error"]

\* the poll request comes back: done leaves the loop, anything else is
\* logged and the loop sleeps for POLL_INTERVAL
PollSettles(answer) ==
  /\ videoCall.phase = "fetch"
  /\ videoCall' = IF answer \in PollDone THEN VideoResult(videoCall, answer)
                   ELSE [videoCall EXCEPT !.phase = "sleep"]
  /\ UNCHANGED exceptVideo

\* the POLL_INTERVAL timer fires and the loop goes round
SleepEnds ==
  /\ videoCall.phase = "sleep"
  /\ videoCall' = LoopTop([videoCall EXCEPT !.elapsed = @ + PollInterval])
  /\ UNCHANGED exceptVideo

InitVideo == InitFrom({EmptyStore}, 2) /\ ServicesIdle

NextVideo ==
  \/ GenerateStoryboardVideo
  \/ \E handle \in OperationHandles : SubmitSettles(handle)
  \/ PollTick
  \/ \E answer \in PollAnswers : PollSettles(answer)
  \/ SleepEnds

\* time passes and armed timers fire; no network call is bound to answer
SpecVideo ==
  /\ InitVideo
  /\ [][NextVideo]_vars
  /\ WF_vars(PollTick)
  /\ WF_vars(SleepEnds)

\* ------------------------------------------- the exported offline player
MaxShown == 3     \* panels in an exported list
MaxStray == 2     \* pending timers of setTimeout(nextStoryboard, 3000)

\* showStoryboard(index): past the last panel it shows 'The End'; otherwise
\* it shows the panel, drops the audio, clears the delay timer and, while
\* playing, starts the panel's audio or arms the delay timer. The timers
\* armed by audio.onerror and by the rejection of audio.play() are held in no
\* variable and are not cleared: those pending when a panel is shown are
\* counted as `stale` from then on.
ShowStoryboard(pl, index) ==
  IF index >= pl.n
  THEN [pl EXCEPT !.isPlaying = FALSE, !.screen = "end"]
  ELSE LET i == IF index < 0 THEN 0 ELSE index
           shown == [pl EXCEPT !.currentIndex = i, !.audio = "null",
                               !.errored = FALSE, !.rejected = FALSE,
                               !.timeout = FALSE,
                               !.stale = pl.stale + pl.stray, !.stray = 0]
       IN  IF ~pl.isPlaying THEN shown
           ELSE IF i \in pl.audioAt THEN [shown EXCEPT !.audio = "playing"]
           ELSE [shown EXCEPT !.timeout = TRUE]

Caused(pl, cause) == [pl EXCEPT !.cause = cause]

\* handleExport writes the page for the editor's list; the page is opened
HandleExport(n, audioAt) ==
  /\ player.screen = "none"
  /\ player' = [NotExported EXCEPT !.n = n, !.audioAt = audioAt,
                                   !.screen = "start"]
  /\ UNCHANGED exceptPlayer

\* startPlayback, and restart from 'The End'
StartPlayback ==
  /\ player.screen \in {"start", "end"}
  /\ player' = Caused(ShowStoryboard([player EXCEPT !.screen = "hidden",
                                                    !.isPlaying = TRUE,
                                                    !.currentIndex = 0], 0),
                      "user")
  /\ UNCHANGED exceptPlayer

\* audio.paused holds for an audio that was paused, rejected or failed
TogglePlayResult(pl) ==
  IF ~pl.isPlaying
  THEN LET on == [pl EXCEPT !.isPlaying = TRUE]
       IN  IF pl.audio = "null" THEN ShowStoryboard(on, pl.currentIndex)
           ELSE IF pl.audio = "paused" THEN [on EXCEPT !.audio = "playing"]
           ELSE on
  ELSE [pl EXCEPT !.isPlaying = FALSE,
                  !.audio = IF @ = "playing" THEN "paused" ELSE @,
                  !.timeout = FALSE]

\* the Pause/Play button (the start screen covers the controls)
TogglePlay ==
  /\ player.screen = "hidden"
  /\ player' = Caused(TogglePlayResult(player), "user")
  /\ UNCHANGED exceptPlayer

NextStoryboardOf(pl) == ShowStoryboard(pl, pl.currentIndex + 1)

\* the Next button
NextStoryboard ==
  /\ player.screen = "hidden"
  /\ player' = Caused(NextStoryboardOf(player), "user")
  /\ UNCHANGED exceptPlayer

\* the Prev button
PrevStoryboard ==
  /\ player.screen = "hidden"
  /\ player' = Caused(ShowStoryboard(player, player.currentIndex - 1), "user")
  /\ UNCHANGED exceptPlayer

\* audio.onended
AudioEnded ==
  /\ player.audio = "playing"
  /\ player' = Caused(NextStoryboardOf([player EXCEPT !.audio = "ended"]),
                      "auto")
  /\ UNCHANGED exceptPlayer

\* audio.onerror arms a 3 s timer
AudioError ==
  /\ player.audio = "playing"
  /\ ~player.errored
  /\ player.stray + player.stale < MaxStray
  /\ player' = [player EXCEPT !.audio = "failed", !.errored = TRUE,
                              !.stray = @ + 1, !.cause = "none"]
  /\ UNCHANGED exceptPlayer

\* audio.play() rejects (autoplay prevented, or the source failed to load):
\* the catch arms a 3 s timer
AutoplayRejected ==
  /\ player.audio \in {"playing", "failed"}
  /\ ~player.rejected
  /\ player.stray + player.stale < MaxStray
  /\ player' = [player EXCEPT !.audio = IF @ = "playing" THEN "paused" ELSE @,
                              !.rejected = TRUE,
                              !.stray = @ + 1, !.cause = "none"]
  /\ UNCHANGED exceptPlayer

\* the delay timer held in `timeout` fires
TimeoutFires ==
  /\ player.timeout
  /\ player' = Caused(NextStoryboardOf([player EXCEPT !.timeout = FALSE]),
                      "auto")
  /\ UNCHANGED exceptPlayer

\* a 3 s timer armed for the panel shown fires
StrayFires ==
  /\ player.stray > 0
  /\ player' = Caused(NextStoryboardOf([player EXCEPT !.stray = @ - 1]),
                      "auto")
  /\ UNCHANGED exceptPlayer

\* a 3 s timer armed for a panel shown earlier fires
StaleFires ==
  /\ player.stale > 0
  /\ player' = Caused(NextStoryboardOf([player EXCEPT !.stale = @ - 1]),
                      "stale")
  /\ UNCHANGED exceptPlayer

InitPlayer == InitFrom({EmptyStore}, 2) /\ ServicesIdle

NextPlayer ==
  \/ \E n \in 1..MaxShown : \E audioAt \in SUBSET (0..(n - 1)) :
       HandleExport(n, audioAt)
  \/ StartPlayback
  \/ TogglePlay
  \/ NextStoryboard
  \/ PrevStoryboard
  \/ AudioEnded
  \/ AudioError
  \/ AutoplayRejected
  \/ TimeoutFires
  \/ StrayFires
  \/ StaleFires

SpecPlayer == InitPlayer /\ [][NextPlayer]_vars

\* ------------------------------------------- Studio.tsx: the movie preview
MaxPreview == 3   \* panels of the list a preview plays
MaxRuns == 3      \* playPreview invocations

\* the editor renders a list of n panels, those of audioAt with audio
ShowList(n, audioAt) ==
  /\ preview.n = 0
  /\ preview' = [NoPreview EXCEPT !.n = n, !.audioAt = audioAt]
  /\ UNCHANGED exceptPreview

\* the body of playPreview's loop for index i in playback run id: past the
\* end of the list, or with isPlayingRef cleared, the run leaves the loop
\* and resets the preview; otherwise it shows panel i and awaits the
\* panel's audio or the fixed delay
LoopBody(pv, id, i) ==
  IF i < pv.n /\ pv.isPlayingRef
  THEN [pv EXCEPT
          !.activePreviewIndex = i,
          !.currentAudioRef = IF i \in pv.audioAt THEN [run |-> id, i |-> i]
                              ELSE @,
          !.runs = {r \in @ : r.id # id} \cup
                   {[id |-> id, i |-> i,
                     wait |-> IF i \in pv.audioAt THEN "audio" ELSE "delay",
                     playing |-> i \in pv.audioAt,
                     stopped |-> \E r \in pv.runs : r.id = id /\ r.stopped]}]
  ELSE [pv EXCEPT !.isPlayingRef = FALSE, !.currentAudioRef = NoAudio,
                  !.isPreviewPlaying = FALSE, !.activePreviewIndex = 0,
                  !.runs = {r \in @ : r.id # id}]

\* currentAudioRef.current.pause()
Pause(runs, audio) ==
  {IF r.id = audio.run /\ r.i = audio.i /\ r.wait = "audio"
   THEN [r EXCEPT !.playing = FALSE] ELSE r : r \in runs}

\* the Play Movie button, shown while isPreviewPlaying is false
PlayPreview ==
  /\ preview.n > 0
  /\ ~preview.isPreviewPlaying
  /\ preview.nRuns < MaxRuns
  /\ preview' =
       [LoopBody([preview EXCEPT
                    !.isPlayingRef = TRUE, !.isPreviewPlaying = TRUE,
                    !.activePreviewIndex = 0, !.currentAudioRef = NoAudio,
                    !.runs = Pause(@, preview.currentAudioRef),
                    !.nRuns = @ + 1],
                 preview.nRuns + 1, 0)
        EXCEPT !.last = NoResume]
  /\ UNCHANGED exceptPreview

\* the Stop Preview button, shown while isPreviewPlaying is true; `stopped`
\* records which runs a stop has addressed (bookkeeping)
StopPreview ==
  /\ preview.isPreviewPlaying
  /\ preview' =
       [preview EXCEPT
          !.isPlayingRef = FALSE, !.isPreviewPlaying = FALSE,
          !.activePreviewIndex = 0, !.currentAudioRef = NoAudio,
          !.runs = {[r EXCEPT !.stopped = TRUE] :
                      r \in Pause(@, preview.currentAudioRef)},
          !.last = NoResume]
  /\ UNCHANGED exceptPreview

\* the awaited promise of run r resolves and its loop goes on with the
\* next index; `last` records what the run did (bookkeeping)
ResumeLoop(pv, r) ==
  LET after == LoopBody(pv, r.id, r.i + 1)
      goesOn == \E q \in after.runs : q.id = r.id
  IN  [after EXCEPT
         !.last = [run |-> r.id, stopped |-> r.stopped, advanced |-> goesOn,
                   audio |-> goesOn /\ (r.i + 1) \in pv.audioAt]]

\* the fixed delay of a panel without audio elapses
DelayElapses(r) ==
  /\ r \in preview.runs /\ r.wait = "delay"
  /\ preview' = ResumeLoop(preview, r)
  /\ UNCHANGED exceptPreview

\* audio.onended, or audio.onerror: currentAudioRef is cleared
AudioSettles(r) ==
  /\ r \in preview.runs /\ r.wait = "audio" /\ r.playing
  /\ preview' = ResumeLoop([preview EXCEPT !.currentAudioRef = NoAudio], r)
  /\ UNCHANGED exceptPreview

\* audio.play() rejects
PlayRejects(r) ==
  /\ r \in preview.runs /\ r.wait = "audio" /\ r.playing
  /\ preview' = ResumeLoop(preview, r)
  /\ UNCHANGED exceptPreview

\* the 30 s timer of the audio wait fires: it resolves only while the
\* run's audio is still the current one
AudioTimeout(r) ==
  /\ r \in preview.runs /\ r.wait = "audio"
  /\ preview.currentAudioRef = [run |-> r.id, i |-> r.i]
  /\ preview' = ResumeLoop(preview, r)
  /\ UNCHANGED exceptPreview

InitPreview == InitFrom({EmptyStore}, 2) /\ ServicesIdle

NextPreview ==
  \/ \E n \in 1..MaxPreview : \E audioAt \in SUBSET (0..(n - 1)) :
       ShowList(n, audioAt)
  \/ PlayPreview
  \/ StopPreview
  \/ \E r \in preview.runs : DelayElapses(r)
  \/ \E r \in preview.runs : AudioSettles(r)
  \/ \E r \in preview.runs : PlayRejects(r)
  \/ \E r \in preview.runs : AudioTimeout(r)

SpecPreview == InitPreview /\ [][NextPreview]_vars

\* ----------------------------------------------------------- generateScript
MaxNameLen == 2      \* characters of a name
MaxCharacters == 2   \* characters supplied to generateScript
MaxItems == 2        \* items of the model output

\* the letters names are written with, and String.prototype.toLowerCase on
\* each of them
Letters == {"a", "A", "b"}
LowerOf(ch) == IF ch = "A" THEN "a" ELSE ch

Names == UNION {[1..n -> Letters] : n \in 0..MaxNameLen}

\* toLowerCase leaving the string as it is
ToLowerCase_Keeps(name) == name

\* name.toLowerCase()
ToLowerCase(name) == [k \in DOMAIN name |-> LowerOf(name[k])]

\* item.characterName: a string, or absent (undefined)
NoName == [present |-> FALSE, chars |-> <<>>]
OptionalNames == {NoName} \cup {[present |-> TRUE, chars |-> nm] : nm \in Names}

Undefined == 0

\* the supplied characters: the character at position i has id i
CharacterLists ==
  UNION {[1..n -> Names] : n \in 0..MaxCharacters}

\* the items of the parsed model output
Descriptions == {"d1", "d2"}
Items == [description : Descriptions, characterName : OptionalNames]
Outputs == UNION {[1..n -> Items] : n \in 0..MaxItems}

\* c.name.toLowerCase() === item.characterName?.toLowerCase()
NameMatches(name, optional) ==
  optional.present /\ ToLowerCase(name) = ToLowerCase(optional.chars)

\* characters.find(...) returns the first match; char ? char.id : undefined
CharacterIdOf(characters, optional) ==
  LET hits == {i \in DOMAIN characters : NameMatches(characters[i], optional)}
  IN  IF hits = {} THEN Undefined
      ELSE CHOOSE i \in hits : \A h \in hits : i <= h

\* data.map(item => ({ description, dialogue, characterId }))
GenerateScript(data, characters) ==
  [k \in DOMAIN data |->
     [description |-> data[k].description,
      characterId |-> CharacterIdOf(characters, data[k].characterName)]]

\* generateScript is called with the project's characters
GenerateScriptCall(characters) ==
  /\ scriptCall.phase = "idle"
  /\ scriptCall' = [scriptCall EXCEPT !.phase = "awaiting",
                                      !.characters = characters]
  /\ UNCHANGED exceptScript

\* the model answers with a JSON array, which is mapped to the result
ScriptResolves(data) ==
  /\ scriptCall.phase = "awaiting"
  /\ scriptCall' = [scriptCall EXCEPT
                      !.phase = "resolved", !.data = data,
                      !.result = GenerateScript(data, scriptCall.characters)]
  /\ UNCHANGED exceptScript

\* the request fails, or its text is not JSON: the error is rethrown
ScriptRejects ==
  /\ scriptCall.phase = "awaiting"
  /\ scriptCall' = [scriptCall EXCEPT !.phase = "rejected"]
  /\ UNCHANGED exceptScript

InitScript == InitFrom({EmptyStore}, 2) /\ ServicesIdle

NextScript ==
  \/ \E characters \in CharacterLists : GenerateScriptCall(characters)
  \/ \E data \in Outputs : ScriptResolves(data)
  \/ ScriptRejects

SpecScript == InitScript /\ [][NextScript]_vars

\* ================================================================ claims
FlagsFalse(list) ==
  \A i \in DOMAIN list :
    /\ ~list[i].isGeneratingImage
    /\ ~list[i].isGeneratingVideo
    /\ ~list[i].isGeneratingAudio

\* C1: every document in the store has all three generating flags false
\* for every panel, and the document a debounced or manual write has just
\* stored is the in-memory project with exactly those flags reset, whatever
\* the flags of the in-memory project were.
C1_StoredFlagsFalse ==
  /\ \A p \in ProjectIds : FlagsFalse(db[p].storyboards)
  /\ lastWrite.cause \in {"debounce", "manual", "back"} =>
       /\ db[lastWrite.proj].mode = projects[lastWrite.proj].mode
       /\ DOMAIN db[lastWrite.proj].storyboards =
            DOMAIN projects[lastWrite.proj].storyboards
       /\ \A i \in DOMAIN db[lastWrite.proj].storyboards :
            db[lastWrite.proj].storyboards[i] =
              [projects[lastWrite.proj].storyboards[i] EXCEPT
                 !.isGeneratingImage = FALSE, !.isGeneratingVideo = FALSE,
                 !.isGeneratingAudio = FALSE]

\* C1 witness: a write has just stored a project whose in-memory copy
\* carries a generating flag that is true.
C1_Witness ==
  /\ lastWrite.cause \in {"debounce", "manual", "back"}
  /\ ~FlagsFalse(projects[lastWrite.proj].storyboards)

\* C2 (as claimed): no panel has an image generation run and an audio
\* generation run of the same editor instance in flight at the same time.
C2_NoImageAudioOverlap ==
  \A j \in jobs, k \in jobs :
    ~(/\ j.kind = "image" /\ j.stage = "gen"
      /\ k.kind = "audio" /\ k.stage = "gen"
      /\ j.proj = k.proj /\ j.panel = k.panel /\ j.inst = k.inst)

C4_ChangeGetsWritten ==
  \A o \in owed : \E t \in timers : t.proj = o.proj

\* C5 (as claimed): when a snapshot is merged into the editor's list (no
\* batch running), a panel whose local imageUrl is a data: or blob: preview
\* and whose remote imageUrl is absent or different keeps the local value.
C5_MergeKeepsLocalPreview ==
  [][(/\ snapshotPending /\ ~snapshotPending'
      /\ mounted /\ ~isBatchGenerating /\ ~isBatchAudioGenerating) =>
       \A i \in DOMAIN storyboards :
         LET local == storyboards[i]
             server == projects'[activeProjectId].storyboards
         IN (/\ IsLocalPreview(local.imageUrl)
             /\ HasId(server, local.id)
             /\ Find(server, local.id).imageUrl # local.imageUrl)
            => Find(storyboards', local.id).imageUrl = local.imageUrl]_vars

\* C6: a batch request made while the opposing batch flag is set raises
\* the please-wait notice and changes nothing else: no run is submitted, no
\* batch starts, no batch flag and no panel changes; a batch starts only
\* while neither batch flag is set, and the two flags are never both set.
C6_OpposingBatchRefused ==
  [][/\ notice' = "wait_audio_complete" => isBatchAudioGenerating
     /\ notice' = "wait_image_complete" => isBatchGenerating
     /\ notice' \in {"wait_audio_complete", "wait_image_complete"} =>
          UNCHANGED <<appVars, studioVars, jobVars>>
     /\ nBatch' # nBatch => ~isBatchGenerating /\ ~isBatchAudioGenerating
     /\ ~(isBatchGenerating' /\ isBatchAudioGenerating')]_vars

\* C6 witness: an audio batch request has just been refused while the
\* visuals batch of the editor is running.
C6_Witness ==
  /\ notice = "wait_image_complete"
  /\ isBatchGenerating /\ ~isBatchAudioGenerating
  /\ \E b \in batches : b.kind = "visuals" /\ Live(b.inst)

\* C7: a manual save, and the save of the back navigation, writes the
\* active project's in-memory state once, sanitized, and leaves no
\* debounce timer pending; the back navigation then leaves the studio.
C7_ForceSaveCancelsAndWrites ==
  [][lastWrite'.cause \in {"manual", "back"} =>
       /\ mounted
       /\ lastWrite'.proj = activeProjectId
       /\ timers' = {}
       /\ db' = [db EXCEPT ![activeProjectId] =
                   SaveProjectToFirestore(projects[activeProjectId])]
       /\ projects' = projects
       /\ lastWrite'.cause = "back" => view' = "DASHBOARD" /\ ~mounted']_vars

\* C7 witness: a manual save has just written while cancelling a pending
\* debounce timer.
C7_Witness ==
  lastWrite.cause = "manual" /\ lastWrite.cancelled /\ timers = {}

\* the step in which the upload of handler run j rejects
UploadFailed(j) ==
  /\ j \in jobs /\ j.stage = "upload"
  /\ \A k \in jobs' : k.id # j.id
  /\ saveTimeoutRef' = saveTimeoutRef

\* C8 (as claimed): when the upload of a generated image rejects in the editor that
\* started the run, the panel's upload-error marker is set, the uploading
\* marker is cleared, nothing is delivered to App, no timer is armed and no
\* write is issued, and the step leaves the list alone; a panel that
\* was not deleted and that no other image run touched meanwhile still
\* shows the run's data: URI with the image flag false.
C8_UploadFailureKeepsPreview ==
  [][\A j \in jobs :
       (UploadFailed(j) /\ j.kind = "image" /\ Live(j.inst)) =>
         /\ j.panel \in uploadErrors'
         /\ uploadingStoryboardId' = 0
         /\ UNCHANGED <<projects, timers, saveTimeoutRef, db, storyboards>>
         /\ lastWrite'.cause = "none"
         /\ (~j.disturbed /\ HasId(storyboards, j.panel)) =>
              /\ Find(storyboards', j.panel).imageUrl = DataUrl(j.id)
              /\ ~Find(storyboards', j.panel).isGeneratingImage]_vars

NoLocalRef(list) ==
  \A i \in DOMAIN list :
    /\ ~IsLocalPreview(list[i].imageUrl)
    /\ ~IsLocalPreview(list[i].videoUrl)
    /\ ~IsLocalPreview(list[i].audioUrl)

\* C9 (as claimed): no stored document holds a data: or blob: reference in
\* a panel's imageUrl, videoUrl or audioUrl.
C9_NoLocalRefStored ==
  \A p \in ProjectIds : NoLocalRef(db[p].storyboards)

\* C10 (as claimed): when the editor is mounted on a project, every panel
\* of its list has all three generating flags false after the initial load
\* and first merge.
C10_FlagsFalseOnOpen ==
  [][inst' # inst => FlagsFalse(storyboards')]_vars

\* C11: a snapshot delivered to a mounted editor while either batch flag is
\* set leaves the editor's list exactly as it was: no panel is added,
\* removed or changed in any field.
C11_NoMergeDuringBatch ==
  [][(/\ snapshotPending /\ ~snapshotPending'
      /\ mounted /\ (isBatchGenerating \/ isBatchAudioGenerating)) =>
       /\ storyboards' = storyboards
       /\ isBatchGenerating' = isBatchGenerating
       /\ isBatchAudioGenerating' = isBatchAudioGenerating]_vars

\* C11 witness: in the first editor of a video project, during its only
\* batch, a video of the batch has been uploaded, written and reported back
\* by a snapshot, and the editor's list still differs from the server list.
C11_Witness ==
  /\ mounted /\ inst = 1 /\ nBatch = 1 /\ isBatchGenerating
  /\ projects[activeProjectId].mode = "video"
  /\ ~snapshotPending
  /\ \E i \in DOMAIN db[activeProjectId].storyboards :
       Truthy(db[activeProjectId].storyboards[i].videoUrl)
  /\ projects[activeProjectId].storyboards = db[activeProjectId].storyboards
  /\ storyboards # projects[activeProjectId].storyboards

\* C12 (as claimed): every invocation of generateStoryboardImage, with or
\* without a character, eventually resolves or rejects, also while the
\* nested visual-description call is outstanding.
C12_ImageCallSettles ==
  [](imageCall.phase # "idle" => <>(imageCall.phase \in ImageSettled))

\* C13 (as claimed): once the video job has been submitted,
\* generateStoryboardVideo resolves or rejects; polling is never stuck
\* forever.
C13_VideoCallSettles ==
  [](videoCall.phase \in {"fetch", "sleep"} =>
       <>(videoCall.phase \in VideoSettled))

\* C13, the parts that hold: a pending, non-OK or failed poll does not end
\* the invocation, and a loop that comes round past the ceiling rejects with
\* the timeout error.
C13_PollLoopSteps ==
  [][/\ (videoCall.phase = "fetch" /\ videoCall'.phase \in VideoSettled) =>
          videoCall'.error # "timeout"
     /\ (videoCall.phase = "sleep" /\ videoCall' # videoCall) =>
          IF videoCall.elapsed + PollInterval > MaxPollTime
          THEN videoCall'.phase = "rejected" /\ videoCall'.error = "timeout"
          ELSE videoCall'.phase = "fetch"]_vars

\* C14 (as claimed): in the exported player every automatic advance is
\* made for the panel currently shown (by the end or failure of its audio or
\* by its delay) and moves exactly one panel forward, so that automatic
\* playback skips no panel; past the last panel it shows 'The End' with
\* playback stopped; the shown index is always within 0..n-1.
C14_PlaysInOrder ==
  /\ [](player.screen # "none" => player.currentIndex \in 0..(player.n - 1))
  /\ [][player'.cause \in {"auto", "stale"} =>
          /\ player'.cause = "auto"
          /\ IF player.currentIndex + 1 < player.n
             THEN player'.currentIndex = player.currentIndex + 1
             ELSE /\ player'.screen = "end"
                  /\ ~player'.isPlaying
                  /\ player'.currentIndex = player.currentIndex]_vars

\* C14, the parts that hold: whatever fires it, an advance moves exactly
\* one panel forward or, past the last panel, shows 'The End' with isPlaying
\* false; the shown index is always within 0..n-1.
C14_OneForwardOrEnd ==
  /\ [](player.screen # "none" => player.currentIndex \in 0..(player.n - 1))
  /\ [][player'.cause \in {"auto", "stale"} =>
          IF player.currentIndex + 1 < player.n
          THEN player'.currentIndex = player.currentIndex + 1
          ELSE /\ player'.screen = "end"
               /\ ~player'.isPlaying
               /\ player'.currentIndex = player.currentIndex]_vars

\* the generation call of run j rejects in this step
GenerationFailed(j) ==
  /\ j \in jobs /\ j.stage = "gen"
  /\ \A k \in jobs' : k.id # j.id

\* C15 (as claimed): when the generation of a panel fails, an alert is raised
\* if the handler was called from the panel's own button and none is raised
\* if it was called by a batch (visuals or audio).
C15_BatchFailureSilent ==
  [][\A j \in jobs : GenerationFailed(j) =>
        (notice' = "failed" <=> j.batch = "none")]_vars

\* C15, the part that holds: a failure in the audio batch raises no alert,
\* a failure of a single-panel run raises one.
C15_AudioBatchFailureSilent ==
  [][\A j \in jobs : GenerationFailed(j) /\ j.batch # "visuals" =>
        (notice' = "failed" <=> j.batch = "none")]_vars

\* the flag of the batch that submitted run j
BatchFlagOf(j) ==
  IF j.batch = "visuals" THEN isBatchGenerating ELSE isBatchAudioGenerating

\* C16 (as claimed): while a job submitted by a batch of the editor is in
\* flight, the flag of that batch is set; in particular the visuals flag is
\* set while an image job of a visuals batch is in flight.
C16_FlagCoversBatchJobs ==
  \A j \in jobs : j.batch # "none" /\ Live(j.inst) => BatchFlagOf(j)

\* C16, the part that holds: the flag is set while a job that the batch loop
\* awaits (video, audio) is in flight.
C16_FlagCoversAwaitedJobs ==
  \A j \in jobs :
    j.batch # "none" /\ j.kind # "image" /\ Live(j.inst) => BatchFlagOf(j)

\* C17: a manual save made while the in-memory project equals the stored
\* document leaves the stored document as it is, and so does a manual save
\* that directly follows a manual save.
C17_ManualSaveIdempotent ==
  [][(/\ lastWrite'.cause = "manual"
      /\ lastWrite'.clean \/ lastWrite'.after = "manual") => db' = db]_vars

\* a second manual save in a row has just been made on a project with a
\* storyboard whose in-memory copy equalled the stored document
C17_Witness ==
  /\ lastWrite.cause = "manual" /\ lastWrite.after = "manual"
  /\ lastWrite.clean
  /\ db[lastWrite.proj].storyboards # <<>>

\* two letters that differ at most in case
SameLetter(x, y) == x = y \/ {x, y} = {"a", "A"}

\* two names that are equal ignoring case
EqualsIgnoringCase(n1, n2) ==
  /\ Len(n1) = Len(n2)
  /\ \A k \in 1..Len(n1) : SameLetter(n1[k], n2[k])

\* the supplied characters whose name equals the optional name ignoring case
Namesakes(characters, optional) ==
  {i \in DOMAIN characters :
     optional.present /\ EqualsIgnoringCase(characters[i], optional.chars)}

\* C18: generateScript returns one panel per item of the model output, in
\* the same order; the characterId of a panel is the id of a supplied
\* character whose name equals the item's characterName ignoring case, and
\* undefined when the name is absent or matches no supplied character.
C18_ScriptResolvesNames ==
  scriptCall.phase = "resolved" =>
    /\ Len(scriptCall.result) = Len(scriptCall.data)
    /\ \A k \in 1..Len(scriptCall.data) :
         LET item == scriptCall.data[k]
             same == Namesakes(scriptCall.characters, item.characterName)
         IN  /\ scriptCall.result[k].description = item.description
             /\ IF same = {} THEN scriptCall.result[k].characterId = Undefined
                ELSE scriptCall.result[k].characterId \in same

\* a script of two items resolved against two characters: the first item
\* names the second character in another case, the second names nobody
C18_Witness ==
  /\ scriptCall.phase = "resolved"
  /\ Len(scriptCall.characters) = 2 /\ Len(scriptCall.data) = 2
  /\ scriptCall.characters[2] = <<"A", "b">>
  /\ scriptCall.data[1].characterName = [present |-> TRUE, chars |-> <<"a", "b">>]
  /\ scriptCall.result[1].characterId = 2
  /\ scriptCall.data[2].characterName.present
  /\ scriptCall.result[2].characterId = Undefined
  /\ scriptCall.data[1].description # scriptCall.data[2].description

\* run j is started in this step by a button of its panel
SingleStarted(j) ==
  /\ j \in jobs' /\ j.batch = "none" /\ j.kind # "file"
  /\ \A k \in jobs : k.id # j.id

\* the batch flag that refuses a single-panel run of this kind
OpposingFlag(kind) ==
  IF kind = "audio" THEN isBatchGenerating ELSE isBatchAudioGenerating

\* C19: no single-panel image or video run is started while the audio batch
\* flag is set and no single-panel audio run while the visuals batch flag is
\* set; the refusal leaves the jobs, the editor's list (generating flags and
\* media URLs) and the upload-error markers unchanged.
C19_SingleRefusedDuringBatch ==
  [][/\ \A j \in jobs' : SingleStarted(j) => ~OpposingFlag(j.kind)
     /\ notice' \in {"wait_audio_finish", "wait_image_finish"} =>
          /\ jobs' = jobs
          /\ storyboards' = storyboards
          /\ uploadErrors' = uploadErrors]_vars

\* a visual generation has just been refused on the audio batch flag alone:
\* no panel generates audio and no visuals batch runs
C19_Witness ==
  /\ notice = "wait_audio_finish"
  /\ mounted /\ isBatchAudioGenerating /\ ~isBatchGenerating
  /\ \A b \in batches : b.kind = "audio"
  /\ \A i \in DOMAIN storyboards : ~storyboards[i].isGeneratingAudio

\* run j returns in this step
Finished(j) == j \in jobs /\ \A k \in jobs' : k.id # j.id

\* run j is new in this step
Entered(j) == j \in jobs' /\ \A k \in jobs : k.id # j.id

\* the upload of run j is seen to fail in this step
UploadFailedStep(j) ==
  /\ Finished(j) /\ j.stage = "upload"
  /\ j.panel \in uploadErrors' \ uploadErrors \/ notice' = "failed"

\* no panel change reaches App in this step
NoPanelChange ==
  projects' = projects /\ saveTimeoutRef' = saveTimeoutRef /\ owed' \subseteq owed

\* C20: a generation run starts generating and uploads only after its
\* generation has completed; completion puts the preview into the editor's
\* list (image, video) and issues no panel change; the panel change with the
\* uploaded URL is issued only in the step in which the upload of that run
\* completes, and none is issued when generation or upload fails.
C20_JobStepsOrdered ==
  [][/\ \A j \in jobs' : Entered(j) /\ j.kind # "file" => j.stage = "gen"
     /\ \A j \in jobs : \A k \in jobs' :
          k.id = j.id /\ k.stage # j.stage =>
            /\ j.stage = "gen" /\ k.stage = "upload"
            /\ NoPanelChange
            /\ (Live(j.inst) /\ j.kind # "audio" /\ HasId(storyboards, j.panel)) =>
                 Find(storyboards', j.panel)[UrlOf(j.kind)] = DataUrl(j.id)
     /\ \A j \in jobs :
          Finished(j) /\ (j.stage = "gen" \/ UploadFailedStep(j)) => NoPanelChange
     /\ \A o \in owed' \ owed :
          \E j \in jobs :
            /\ Finished(j) /\ j.stage = "upload"
            /\ o = [proj |-> j.proj, panel |-> j.panel, field |-> UrlOf(j.kind),
                    value |-> HttpsUrl(j.id)]]_vars

\* a video generation run has gone through all its steps: it has returned,
\* the panel change with its uploaded URL is with App and the editor's panel
\* shows that URL
C20_Witness ==
  /\ mounted
  /\ \E o \in owed :
       /\ o.value.scheme = "https"
       /\ o.field = "videoUrl"
       /\ \A j \in jobs : j.id # o.value.n
       /\ HasId(storyboards, o.panel)
       /\ Find(storyboards, o.panel)[o.field] = o.value
       /\ HasId(projects[o.proj].storyboards, o.panel)
       /\ Find(projects[o.proj].storyboards, o.panel)[o.field] = o.value
  /\ nJobs = 1
  /\ uploadingStoryboardId = 0

\* ------------------------------------------- batches run to their end
\* the batch loops and the Generate Image button, every stagger wait
\* elapsing and every generation and upload settling
\* the bound on runs is charged when a batch or a single run starts, the
\* runs of the suspended loops reserved, so that it stops no loop half-way
\* the number of runs a loop of this kind starts for the items
Runs(kind, closure, items) ==
  Len(SelectSeq(items, LAMBDA id : ~ItemRefused(kind, closure, id)))

\* the runs the suspended loops have yet to start
RECURSIVE Reserved(_)
Reserved(bs) ==
  IF bs = {} THEN 0
  ELSE LET b == CHOOSE x \in bs : TRUE
       IN Runs(b.kind, b.closure, b.items) + Reserved(bs \ {b})

RoomForRun == nJobs + Reserved(batches) < MaxJobs

RoomForBatch(kind) ==
  /\ mounted
  /\ LET toGenerate ==
           IF kind = "audio" THEN AudioToGenerate(storyboards)
           ELSE VisualsToGenerate(storyboards,
                                  projects[activeProjectId].mode = "video")
     IN nJobs + Reserved(batches) + Runs(kind, storyboards, IdList(toGenerate))
          <= MaxJobs

InitBatchRun ==
  /\ InitFrom({BatchStore(m) : m \in Modes} \cup {SplitStore(m) : m \in Modes}, 3)
  /\ ServicesIdle

StaggerElapses == (\E b \in batches : BatchStep(b)) /\ UNCHANGED serviceVars

GenerationSettles ==
  /\ \E j \in jobs : GenerationSucceeds(j) \/ GenerationFails(j)
  /\ UNCHANGED serviceVars

UploadSettles ==
  /\ \E j \in jobs : UploadSucceeds(j) \/ UploadFails(j)
  /\ UNCHANGED serviceVars

NextBatchRun ==
  \/ DeliverSnapshot /\ UNCHANGED serviceVars
  \/ \E p \in ProjectIds : OpenProject(p) /\ UNCHANGED serviceVars
  \/ SetViewDashboard /\ UNCHANGED serviceVars
  \/ \E t \in timers : FireTimer(t) /\ UNCHANGED serviceVars
  \/ \E id \in 1..nextId :
       RoomForRun /\ HandleGenerateImage(id) /\ UNCHANGED serviceVars
  \/ \E ok \in BOOLEAN :
       RoomForBatch("visuals") /\ HandleGenerateAllVisuals(ok) /\ UNCHANGED serviceVars
  \/ \E ok \in BOOLEAN :
       RoomForBatch("audio") /\ HandleGenerateAllAudio(ok) /\ UNCHANGED serviceVars
  \/ StaggerElapses
  \/ GenerationSettles
  \/ UploadSettles

SpecBatchRun ==
  /\ InitBatchRun /\ [][NextBatchRun]_vars
  /\ WF_vars(StaggerElapses)
  /\ WF_vars(GenerationSettles)
  /\ WF_vars(UploadSettles)

\* ------------------------------- Studio.tsx: script generation in the editor
\* the storyboards built from the generated script: fresh ids, flags false
NewStoryboards(n, first) == [i \in 1..n |-> Panel(first + i - 1, "hi")]

\* handleGenerateScript up to its await: the run keeps the storyboards of the
\* render it was started from (the button is disabled while a run of this
\* instance is in flight)
HandleGenerateScript ==
  /\ mounted
  /\ \A r \in scriptRequests : r.inst # inst
  /\ scriptRequests' = scriptRequests \cup
       {[inst |-> inst, proj |-> activeProjectId, closure |-> storyboards]}
  /\ UNCHANGED <<appVars, studioVars, jobVars, exceptRequests>>
  /\ notice' = "none"
  /\ lastWrite' = NoRecord

\* gemini.generateScript resolves with n storyboards:
\* updateLocalStoryboards([...storyboards, ...newStoryboards]) with the
\* storyboards of the run's closure
ScriptRunResolves(r, n) ==
  /\ r \in scriptRequests
  /\ Len(r.closure) + n <= MaxPanels
  /\ saveTimeoutRef < MaxTimers
  /\ scriptRequests' = scriptRequests \ {r}
  /\ LET list == r.closure \o NewStoryboards(n, nextId)
         own == IF Live(r.inst) THEN list ELSE storyboards
     IN /\ OnUpdateStoryboards(r.proj, list)
        /\ storyboards' =
             IF mounted /\ activeProjectId = r.proj
             THEN MergeEffect(own, projects'[r.proj].storyboards,
                              isBatchGenerating, isBatchAudioGenerating)
             ELSE own
  /\ nextId' = nextId + n
  /\ UNCHANGED <<activeProjectId, view, mounted, inst, uploadErrors,
                 uploadingStoryboardId, isBatchGenerating,
                 isBatchAudioGenerating, jobVars, exceptRequests>>
  /\ notice' = "none"

\* gemini.generateScript rejects: the alert, nothing else
ScriptRunFails(r) ==
  /\ r \in scriptRequests
  /\ scriptRequests' = scriptRequests \ {r}
  /\ UNCHANGED <<appVars, studioVars, jobVars, exceptRequests>>
  /\ notice' = "failed"
  /\ lastWrite' = NoRecord

InitScriptRun == InitFrom({InitialStore}, 2) /\ ServicesIdle

NextScriptRun ==
  \/ DeliverSnapshot /\ UNCHANGED serviceVars
  \/ \E p \in ProjectIds : OpenProject(p) /\ UNCHANGED serviceVars
  \/ SetViewDashboard /\ UNCHANGED serviceVars
  \/ \E t \in timers : FireTimer(t) /\ UNCHANGED serviceVars
  \/ \E id \in 1..nextId, text \in Texts : EditDialogue(id, text) /\ UNCHANGED serviceVars
  \/ \E id \in 1..nextId : DeleteStoryboard(id) /\ UNCHANGED serviceVars
  \/ \E id \in 1..nextId : HandleGenerateImage(id) /\ UNCHANGED serviceVars
  \/ \E j \in jobs : GenerationSucceeds(j) /\ UNCHANGED serviceVars
  \/ \E j \in jobs : UploadSucceeds(j) /\ UNCHANGED serviceVars
  \/ HandleGenerateScript
  \/ \E r \in scriptRequests, n \in 1..MaxPanels : ScriptRunResolves(r, n)
  \/ \E r \in scriptRequests : ScriptRunFails(r)

SpecScriptRun == InitScriptRun /\ [][NextScriptRun]_vars

\* ------------------------------------------- two projects, one debounce
InitProjects == InitFrom({TwoProjectStore}, 2) /\ ServicesIdle

NextProjects ==
  \/ DeliverSnapshot /\ UNCHANGED serviceVars
  \/ \E p \in ProjectIds : OpenProject(p) /\ UNCHANGED serviceVars
  \/ \E p \in ProjectIds : HandleDeleteProject(p) /\ UNCHANGED serviceVars
  \/ SetViewDashboard /\ UNCHANGED serviceVars
  \/ \E t \in timers : FireTimer(t) /\ UNCHANGED serviceVars
  \/ OnSave /\ UNCHANGED serviceVars
  \/ OnBack /\ UNCHANGED serviceVars
  \/ \E id \in 1..nextId, text \in Texts : EditDialogue(id, text) /\ UNCHANGED serviceVars
  \/ \E id \in 1..nextId : DeleteStoryboard(id) /\ UNCHANGED serviceVars
  \/ \E id \in 1..nextId : HandleGenerateImage(id) /\ UNCHANGED serviceVars
  \/ \E j \in jobs : GenerationSucceeds(j) /\ UNCHANGED serviceVars
  \/ \E j \in jobs : UploadSucceeds(j) /\ UNCHANGED serviceVars

SpecProjects == InitProjects /\ [][NextProjects]_vars

\* run j moves on in this step: its generation or its upload settles
Advanced(j) ==
  /\ j \in jobs
  /\ \A k \in jobs' : k.id = j.id => k.stage # j.stage

\* the panel with this id is in both lists and the same in both
SamePanel(before, after, id) ==
  HasId(before, id) => HasId(after, id) /\ Find(after, id) = Find(before, id)

\* C21 (as claimed): while runs for two different panels are in flight, a
\* step of one run (its generation or upload settling) changes no field of
\* the other run's panel, in the editor's list and in the parent's list.
C21_OtherPanelUntouched ==
  [][\A j \in jobs : \A k \in jobs :
       (/\ Advanced(j) /\ k.panel # j.panel /\ k.proj = j.proj
        /\ mounted /\ Live(j.inst) /\ Live(k.inst)
        /\ activeProjectId = j.proj) =>
         /\ SamePanel(storyboards, storyboards', k.panel)
         /\ SamePanel(projects[j.proj].storyboards,
                      projects'[j.proj].storyboards, k.panel)]_vars

\* C21, the part that holds: such a step changes no field of the other
\* run's panel in the parent's list.
C21_OtherPanelUntouchedInApp ==
  [][\A j \in jobs : \A k \in jobs :
       (Advanced(j) /\ k.panel # j.panel /\ k.proj = j.proj) =>
         SamePanel(projects[j.proj].storyboards,
                   projects'[j.proj].storyboards, k.panel)]_vars

\* the upload of run j resolves in this step: onStoryboardChange is called
PanelChangeStep(j) ==
  Finished(j) /\ j.stage = "upload" /\ saveTimeoutRef' # saveTimeoutRef

\* C22: a panel change (project, panel, one field) changes, in App's
\* projects, only that field of the panel with that id in that project:
\* every other field of the panel, every other panel and the order of the
\* list, the project's other fields and every other project stay as they
\* were, and a change for a panel id the project does not hold changes
\* nothing (a deleted panel is not created again).
C22_PanelChangeFrame ==
  [][\A j \in jobs : PanelChangeStep(j) =>
       LET before == projects[j.proj].storyboards
           after == projects'[j.proj].storyboards
       IN /\ \A p \in ProjectIds \ {j.proj} : projects'[p] = projects[p]
          /\ projects'[j.proj].mode = projects[j.proj].mode
          /\ DOMAIN after = DOMAIN before
          /\ \A i \in DOMAIN before :
               IF before[i].id = j.panel
               THEN /\ after[i][UrlOf(j.kind)] = HttpsUrl(j.id)
                    /\ \A f \in DOMAIN before[i] \ {UrlOf(j.kind)} :
                         after[i][f] = before[i][f]
               ELSE after[i] = before[i]]_vars

\* a change of project A's panel was applied while App held project B too,
\* whose panel has the same id and is still as stored
C22_Witness ==
  /\ Exists(projects["A"]) /\ Exists(projects["B"])
  /\ \E o \in owed :
       /\ o.proj = "A" /\ o.field = "imageUrl" /\ o.value.scheme = "https"
       /\ Carries(projects["A"], o)
       /\ HasId(projects["B"].storyboards, o.panel)
  /\ projects["B"] = db["B"]

\* the script run r resolves in this step
ScriptResolvedStep(r) ==
  r \in scriptRequests /\ r \notin scriptRequests' /\ nextId' # nextId

\* the parent's list keeps its panels, their order, their text and the
\* outputs they had
KeepsPanels(before, after) ==
  /\ Len(after) >= Len(before)
  /\ \A i \in DOMAIN before :
       /\ after[i].id = before[i].id
       /\ after[i].dialogue = before[i].dialogue
       /\ \A f \in {"imageUrl", "videoUrl", "audioUrl"} :
            Truthy(before[i][f]) => Truthy(after[i][f])

\* C23 (as claimed): when the script request resolves, the new storyboards
\* (all three generating flags false) are appended after the list as it is
\* at that time: the editor's list keeps every panel as it was, and the
\* parent's list keeps its panels, their text and their outputs.
C23_ScriptAppendsToCurrent ==
  [][\A r \in scriptRequests : (ScriptResolvedStep(r) /\ Live(r.inst)) =>
       /\ Len(storyboards') > Len(storyboards)
       /\ SubSeq(storyboards', 1, Len(storyboards)) = storyboards
       /\ FlagsFalse(SubSeq(storyboards', Len(storyboards) + 1,
                            Len(storyboards')))
       /\ KeepsPanels(projects[r.proj].storyboards,
                      projects'[r.proj].storyboards)]_vars

\* C23, the part that holds: the storyboards appended carry all three
\* generating flags false, in the editor's list and in the parent's.
C23_NewStoryboardsIdle ==
  [][\A r \in scriptRequests : ScriptResolvedStep(r) =>
       \A i \in DOMAIN projects'[r.proj].storyboards :
         projects'[r.proj].storyboards[i].id >= nextId =>
           /\ FlagsFalse(<<projects'[r.proj].storyboards[i]>>)
           /\ Live(r.inst) => FlagsFalse(<<storyboards'[i]>>)]_vars

\* panel id of the list lacks the output of kind, is not generating it and,
\* for audio, has dialogue
Eligible(list, id, kind) ==
  /\ HasId(list, id)
  /\ ~Truthy(Find(list, id)[UrlOf(kind)])
  /\ ~Find(list, id)[FlagOf(kind)]
  /\ kind = "audio" => Find(list, id).dialogue # ""

\* C24: a batch starts runs only for panels that, in the list the batch was
\* started on, lack the target output (imageUrl / videoUrl / audioUrl) and
\* are not generating it (audio: dialogue non-empty too); when no panel is
\* eligible or the confirmation is declined, no run starts, no loop starts
\* and neither batch flag changes.
C24_BatchSelectsEligible ==
  [][/\ \A j \in jobs' : (Entered(j) /\ j.batch # "none") =>
          \E b \in batches' :
            /\ b.kind = j.batch /\ b.inst = j.inst /\ b.proj = j.proj
            /\ j.kind = ItemKind(b.kind, b.video)
            /\ Eligible(b.closure, j.panel, j.kind)
     /\ notice' \in {"nothing_to_do", "declined"} =>
          UNCHANGED <<jobs, batches, isBatchGenerating,
                      isBatchAudioGenerating>>]_vars

\* a visuals batch of a static project ran over a list in which one panel
\* had an image already: its only run is for the other panel
C24_Witness ==
  \E b \in batches :
    /\ b.kind = "visuals" /\ ~b.video /\ b.items = <<>>
    /\ Len(b.closure) = 2
    /\ \E i \in DOMAIN b.closure : Truthy(b.closure[i].imageUrl)
    /\ nJobs = 2
    /\ \E j \in jobs :
         /\ j.batch = "visuals" /\ Eligible(b.closure, j.panel, "image")
         /\ \A k \in jobs : k.batch = "visuals" => k = j

\* the selection a batch loop was started with
Selected(b) ==
  IdList(IF b.kind = "audio" THEN AudioToGenerate(b.closure)
         ELSE VisualsToGenerate(b.closure, b.video))

\* the items loop b had left before this step (its whole selection when it
\* starts in this step)
ItemsBefore(b) ==
  LET olds == {o \in batches : o.kind = b.kind /\ o.inst = b.inst}
  IN IF olds = {} THEN Selected(b) ELSE (CHOOSE o \in olds : TRUE).items

\* a loop takes its next item in this step: the item is the first one left,
\* and unless the handler's own guard returns at once exactly one run is
\* started, for that panel and of the loop's kind
TakesItemsInOrder ==
  \A b \in batches' :
    ItemsBefore(b) # b.items =>
      /\ ItemsBefore(b) # <<>>
      /\ b.items = Tail(ItemsBefore(b))
      /\ LET id == Head(ItemsBefore(b))
         IN IF ItemRefused(b.kind, b.closure, id)
            THEN \A j \in jobs' : ~Entered(j)
            ELSE \E j \in jobs' :
                   /\ Entered(j) /\ j.panel = id /\ j.batch = b.kind
                   /\ j.kind = ItemKind(b.kind, b.video)
                   /\ \A k \in jobs' : Entered(k) => k = j

\* a run of a batch is started only by a loop taking an item
BatchRunsFromLoop ==
  \A j \in jobs' : (Entered(j) /\ j.batch # "none") =>
    \E b \in batches' :
      /\ b.kind = j.batch /\ b.inst = j.inst
      /\ ItemsBefore(b) # <<>> /\ Head(ItemsBefore(b)) = j.panel

\* panel id still waits in a loop of this kind
Waits(kind, id) ==
  \E b \in batches : b.kind = kind /\ \E i \in DOMAIN b.items : b.items[i] = id

C25_WitnessAfterFailure ==
  /\ \E b \in batches :
       /\ b.kind = "audio" /\ b.items = <<>> /\ Selected(b) = <<1, 2>>
       /\ Live(b.inst)
  /\ nJobs = 2
  /\ \A j \in jobs : j.id = 2 /\ j.panel = 2 /\ j.batch = "audio"
  /\ jobs # {}
  /\ ~Truthy(Find(storyboards, 1).audioUrl)

\* C26: a batch flag that is set is eventually cleared, whether the runs of
\* the batch succeed or fail (every stagger wait elapsing, every generation
\* and upload settling); and with the flag cleared the handler of the
\* opposing batch is not refused: the refusal alert is raised only while
\* the flag is set.
C26_BatchFlagCleared ==
  /\ isBatchGenerating ~> ~isBatchGenerating
  /\ isBatchAudioGenerating ~> ~isBatchAudioGenerating
  /\ [][/\ notice' = "wait_image_complete" => isBatchGenerating
        /\ notice' = "wait_audio_complete" => isBatchAudioGenerating]_vars

\* in one editor instance a visuals batch has run to its end and cleared its
\* flag, its run has ended, and an audio batch has been started after it
C26_Witness ==
  /\ mounted /\ inst = 1 /\ nBatch = 2
  /\ ~isBatchGenerating /\ isBatchAudioGenerating
  /\ \A b \in batches : b.kind = "audio"
  /\ batches # {}
  /\ nJobs = 2
  /\ \A j \in jobs : j.batch = "audio"

\* a snapshot is delivered to a mounted editor in this step, no batch running
SnapshotMerged ==
  /\ snapshotPending /\ ~snapshotPending'
  /\ mounted /\ mounted'
  /\ ~isBatchGenerating /\ ~isBatchAudioGenerating

\* C27: after a remote snapshot is merged with no batch running, the
\* editor's list holds exactly the panel ids of the snapshot's list, in its
\* order (a panel only the editor held is dropped, a panel only the snapshot
\* holds is added), and every field of every panel equals the snapshot's
\* value, except an imageUrl kept from the editor's panel, which is a data:
\* preview.
C27_MergeTakesRemote ==
  [][SnapshotMerged =>
       LET remote == projects'[activeProjectId].storyboards
       IN /\ IdList(storyboards') = IdList(remote)
          /\ \A i \in DOMAIN remote : \A f \in DOMAIN remote[i] :
               \/ storyboards'[i][f] = remote[i][f]
               \/ /\ f = "imageUrl"
                  /\ HasId(storyboards, remote[i].id)
                  /\ StartsWith(Find(storyboards, remote[i].id).imageUrl, "data")
                  /\ storyboards'[i][f] =
                       Find(storyboards, remote[i].id).imageUrl]_vars

\* the state a merge leaves: App's list is the stored one, no snapshot is
\* queued, and the editor's list equals it except for the data: preview of
\* the image whose upload is still running
C27_Witness ==
  /\ mounted /\ ~snapshotPending
  /\ projects[activeProjectId] = db[activeProjectId]
  /\ IdList(storyboards) = IdList(projects[activeProjectId].storyboards)
  /\ storyboards # projects[activeProjectId].storyboards
  /\ storyboards = SmartMerge(storyboards, projects[activeProjectId].storyboards)
  /\ \E j \in jobs :
       /\ j.stage = "upload" /\ j.kind = "image"
       /\ Find(storyboards, j.panel).imageUrl = DataUrl(j.id)
  /\ nextId = 3 /\ Len(storyboards) = 1

\* C28 (as claimed): a change of, or a manual save of, another project does
\* not cancel a project's pending debounced write: a pending timer goes
\* away only by firing, by a write of its own project in the same step, or
\* by being re-armed for its own project.
C28_TimerSurvivesOtherProject ==
  [][\A t \in timers : t \notin timers' =>
       \/ lastWrite'.proj = t.proj
       \/ \E u \in timers' \ timers : u.proj = t.proj
       \/ ~Exists(projects[t.proj])]_vars

\* C29 (as claimed): the write issued when the debounce timer fires contains
\* every panel change delivered to App for that project since the last
\* write, whether or not a snapshot was delivered in between.
C29_TimerWriteCarriesChange ==
  [][lastWrite'.cause = "debounce" =>
       \A o \in owed : o.proj = lastWrite'.proj => Carries(db'[o.proj], o)]_vars

\* C29, the part that holds: the write of the timer contains every change
\* App's list still holds when the timer fires.
C29_TimerWritesAppList ==
  [][lastWrite'.cause = "debounce" =>
       \A o \in owed : o.proj = lastWrite'.proj =>
         (Carries(projects[o.proj], o) => Carries(db'[o.proj], o))]_vars

\* C30 (as claimed): a project deleted from durable storage is not created
\* again by a debounced write: the timer's callback stores no document for
\* a project that has none (both projects are stored at the start and none
\* is ever created).
C30_NoDebouncedWriteAfterDelete ==
  [][lastWrite'.cause = "debounce" => Exists(db[lastWrite'.proj])]_vars

\* C30, the part that holds: once the snapshot reporting the deletion has
\* been delivered, no write stores the project again.
C30_DeletedStaysDeletedAfterSnapshot ==
  [][\A p \in ProjectIds :
       (~Exists(db[p]) /\ ~Exists(projects[p])) => ~Exists(db'[p])]_vars

\* C31 (as claimed): while a generation run started by the rendered editor
\* awaits its generation call, the panel it was started for, if still in
\* the editor's list, carries the run's generating flag.
C31_FlagHeldWhileGenerating ==
  \A j \in jobs :
    (j.stage = "gen" /\ Live(j.inst) /\ HasId(storyboards, j.panel)) =>
      Find(storyboards, j.panel)[FlagOf(j.kind)]

\* C32 (as claimed): when the image or video upload of one panel completes
\* (resolves or rejects) in the rendered editor while the upload of another
\* panel, started by the same editor, is still in flight, the editor's
\* upload-in-progress marker is still set after the step.
C32_MarkerSurvivesOtherUpload ==
  [][\A j \in jobs, k \in jobs :
       (/\ j.panel # k.panel
        /\ j.stage = "upload" /\ k.stage = "upload"
        /\ j.kind # "audio" /\ k.kind # "audio"
        /\ Live(j.inst) /\ Live(k.inst)
        /\ \A n \in jobs' : n.id # j.id
        /\ k \in jobs') =>
         uploadingStoryboardId' # 0]_vars

\* ------------------------------------ single handler runs to their end
\* the three generation buttons; every generation call settles (each is
\* wrapped in a timeout or bounded by the poll limit), while the storage
\* upload is awaited without a timeout and may settle or stay pending
NextHandlerRun ==
  \/ DeliverSnapshot /\ UNCHANGED serviceVars
  \/ \E p \in ProjectIds : OpenProject(p) /\ UNCHANGED serviceVars
  \/ SetViewDashboard /\ UNCHANGED serviceVars
  \/ \E t \in timers : FireTimer(t) /\ UNCHANGED serviceVars
  \/ \E id \in 1..nextId : HandleGenerateImage(id) /\ UNCHANGED serviceVars
  \/ \E id \in 1..nextId : HandleGenerateVideo(id) /\ UNCHANGED serviceVars
  \/ \E id \in 1..nextId : HandleGenerateAudio(id) /\ UNCHANGED serviceVars
  \/ GenerationSettles
  \/ UploadSettles

SpecHandlerRun ==
  /\ InitBatchRun /\ [][NextHandlerRun]_vars
  /\ WF_vars(GenerationSettles)

\* C33 (as claimed): every run of a single-panel generation handler (image,
\* video, audio) that passed its guards in the rendered editor eventually
\* returns, which clears its flag and the upload-in-progress marker, or the
\* editor is left, whatever the generation call and the upload do.
C33_HandlerRunFinishes ==
  \A n \in 1..MaxJobs :
    (\E j \in jobs : j.id = n /\ Live(j.inst))
      ~> ~(\E j \in jobs : j.id = n /\ Live(j.inst))

\* C34 (as claimed): a playback run that stopPreview has stopped shows no
\* further panel and starts no further audio when its pending wait is over.
C34_StoppedRunIsInert ==
  preview.last.stopped => ~preview.last.advanced /\ ~preview.last.audio

\* C35 (as claimed): a batch loop submits an item only while the editor
\* that started the batch is still rendered: once that editor is torn down
\* no further handler run is started for the batch.
C35_NoItemAfterTeardown ==
  [][\A j \in jobs' : (Entered(j) /\ j.batch # "none") => Live(j.inst)]_vars

\* ------------------------- Studio.tsx: the character of a generation call
MaxCast == 2   \* characters of the project

AVAILABLE_VOICES == <<"Puck", "Charon", "Kore", "Fenrir", "Zephyr">>

\* characters.find(c => c.id === id): the first match, or undefined
CharactersFind(characters, id) ==
  LET hits == {i \in DOMAIN characters : characters[i].id = id}
  IN  IF hits = {} THEN NoCharacter
      ELSE characters[CHOOSE i \in hits : \A k \in hits : i <= k]

\* the voice chain without the narrator voice of the settings
VoiceId_SkipsDefault(character, defaultNarratorVoiceId) ==
  IF character # NoCharacter /\ character.voiceId # ""
  THEN character.voiceId
  ELSE AVAILABLE_VOICES[1]

\* character?.voiceId || settings.defaultNarratorVoiceId ||
\* AVAILABLE_VOICES[0].id (an unset or empty voice id is "")
VoiceId(character, defaultNarratorVoiceId) ==
  IF character # NoCharacter /\ character.voiceId # ""
  THEN character.voiceId
  ELSE IF defaultNarratorVoiceId # "" THEN defaultNarratorVoiceId
  ELSE AVAILABLE_VOICES[1]

\* the ids of the project's characters are 1 and 2; a panel carries no
\* character id (Undefined), the id of a character, or an id that no
\* character has (3: its character was deleted)
CharacterIds == {1, 2}
PanelCharacterIds == {Undefined, 1, 2, 3}
Casts ==
  UNION {[1..n -> [id : CharacterIds, voiceId : {"", "Charon"}]] :
           n \in 0..MaxCast}

\* a generation handler that passed its guards looks its panel's character
\* up and calls the service: generateStoryboardImage / generateStoryboardVideo
\* with the character, generateSpeech with the voice id
CallGeneration(kind, characters, characterId, defaultNarratorVoiceId) ==
  /\ request' =
       LET character == CharactersFind(characters, characterId)
       IN  [kind |-> kind, characters |-> characters,
            characterId |-> characterId,
            defaultNarratorVoiceId |-> defaultNarratorVoiceId,
            character |-> character,
            voiceId |-> IF kind = "audio"
                        THEN VoiceId(character, defaultNarratorVoiceId)
                        ELSE ""]
  /\ UNCHANGED exceptRequest

InitRequest == InitFrom({EmptyStore}, 2) /\ ServicesIdle

NextRequest ==
  \E kind \in {"image", "video", "audio"}, characters \in Casts,
     characterId \in PanelCharacterIds, voice \in {"", "Kore"} :
    CallGeneration(kind, characters, characterId, voice)

SpecRequest == InitRequest /\ [][NextRequest]_vars

\* the panel's character id is that of no character of the project
NoSuchCharacter ==
  /\ request.kind # "none"
  /\ \A i \in DOMAIN request.characters :
       request.characters[i].id # request.characterId

\* C36: for a panel whose character id matches no character, the
\* generation call gets the character a panel without character id gets
\* (none), and an audio call gets the narrator voice of the settings, or
\* the first available voice when the settings name none.
C36_UnknownCharacterIsNoCharacter ==
  NoSuchCharacter =>
    /\ request.character = CharactersFind(request.characters, Undefined)
    /\ request.character = NoCharacter
    /\ request.kind = "audio" =>
         request.voiceId =
           IF request.defaultNarratorVoiceId # ""
           THEN request.defaultNarratorVoiceId
           ELSE "Puck"

\* C36 witness: an audio call for a panel that names a deleted character,
\* in a project that has characters with voices, with a narrator voice set
C36_Witness ==
  /\ NoSuchCharacter
  /\ request.kind = "audio"
  /\ request.characterId = 3
  /\ Len(request.characters) = 2
  /\ request.characters[1].voiceId = "Charon"
  /\ request.defaultNarratorVoiceId = "Kore"
  /\ request.voiceId = "Kore"

\* --------------------- geminiService.ts: visual descriptions; LocationVault
MaxMedia == 2   \* media items of a location

\* an invocation is at rest: none yet, or the last one has returned
VisionAtRest == {"idle", "generate", "done"}

\* (text || '') + (character.bio ? ` Context: ${character.bio}` : '')
Described(text, bio) == text \o (IF bio # <<>> THEN <<"Context:">> \o bio ELSE <<>>)

\* what the vision request answers for the parts it was given
VisionText(answer, parts) ==
  IF answer = "empty" THEN <<>>
  ELSE IF parts = 1 THEN <<"from 1 reference">> ELSE <<"from 2 references">>

\* a catch block of getCharacterVisualDescription that throws the error on
DescribeFailed_Rethrows(v, step) ==
  [v EXCEPT !.phase = "rejected", !.failed = @ \cup {step}]

\* the catch block of getCharacterVisualDescription: character.bio || '' is
\* returned, and generateStoryboardImage goes on to its image request
DescribeFailed(v, step) ==
  [v EXCEPT !.phase = "generate", !.failed = @ \cup {step},
            !.description = v.bio]

\* generateStoryboardImage with a character: getCharacterVisualDescription
\* returns the bio at once for a character without imageUrl, and fetches the
\* reference image otherwise
GetCharacterVisualDescription(hasImage, second, bio) ==
  /\ vision.phase \in VisionAtRest
  /\ vision' =
       IF hasImage
       THEN [NoVision EXCEPT !.fn = "character", !.phase = "fetch1",
                             !.second = second, !.bio = bio,
                             !.stored = vision.stored]
       ELSE [NoVision EXCEPT !.fn = "character", !.phase = "generate",
                             !.bio = bio, !.description = bio,
                             !.stored = vision.stored]
  /\ UNCHANGED exceptVision

\* fetchMediaAsBase64 of a reference image resolves or rejects: a failed
\* first fetch ends in the catch block, a failed second one is only logged
ReferenceFetchSettles(ok) ==
  /\ vision.fn = "character"
  /\ vision.phase \in {"fetch1", "fetch2"}
  /\ vision' =
       IF vision.phase = "fetch1"
       THEN IF ~ok THEN DescribeFailed(vision, "fetch1")
            ELSE [vision EXCEPT !.parts = 1,
                    !.phase = IF vision.second THEN "fetch2" ELSE "vision"]
       ELSE [vision EXCEPT !.phase = "vision",
                           !.parts = IF ok THEN 2 ELSE @,
                           !.failed = IF ok THEN @ ELSE @ \cup {"fetch2"}]
  /\ UNCHANGED exceptVision

\* the vision request of getCharacterVisualDescription resolves (with or
\* without text) or rejects
CharacterVisionSettles(answer) ==
  /\ vision.fn = "character"
  /\ vision.phase = "vision"
  /\ vision' =
       IF answer = "error" THEN DescribeFailed(vision, "vision")
       ELSE [vision EXCEPT
               !.phase = "generate",
               !.description = Described(VisionText(answer, vision.parts),
                                         vision.bio)]
  /\ UNCHANGED exceptVision

\* the catch and finally blocks of handleAnalyze: the error is shown, the
\* location is not saved
AnalysisFailed(v, step) ==
  [v EXCEPT !.phase = "done", !.failed = @ \cup {step}, !.alert = TRUE]

\* the Analyze button of a location with n media items
HandleAnalyze(n) ==
  /\ vision.phase \in VisionAtRest
  /\ vision' = [NoVision EXCEPT !.fn = "location", !.phase = "fetch",
                                !.items = n, !.stored = vision.stored,
                                !.before = vision.stored]
  /\ UNCHANGED exceptVision

\* getLocationVisualDescription: the fetch of the next media item resolves
\* or rejects (a failed item is skipped); after the last one, no part at
\* all throws "No media could be loaded"
MediaFetchSettles(ok) ==
  /\ vision.fn = "location"
  /\ vision.phase = "fetch"
  /\ vision' =
       LET parts == IF ok THEN vision.parts + 1 ELSE vision.parts
           fetched == [vision EXCEPT !.parts = parts, !.items = @ - 1]
       IN  IF vision.items > 1 THEN fetched
           ELSE IF parts = 0 THEN AnalysisFailed(fetched, "media")
           ELSE [fetched EXCEPT !.phase = "vision"]
  /\ UNCHANGED exceptVision

\* the vision request of getLocationVisualDescription resolves or rejects;
\* handleAnalyze then saves the location with the new description
LocationVisionSettles(answer) ==
  /\ vision.fn = "location"
  /\ vision.phase = "vision"
  /\ vision' =
       IF answer = "error" THEN AnalysisFailed(vision, "vision")
       ELSE [vision EXCEPT !.phase = "save",
                           !.description = VisionText(answer, vision.parts)]
  /\ UNCHANGED exceptVision

\* saveLocationToFirestore resolves or rejects
SaveLocationSettles(ok) ==
  /\ vision.fn = "location"
  /\ vision.phase = "save"
  /\ vision' =
       IF ok THEN [vision EXCEPT !.phase = "done",
                                 !.stored = vision.description]
       ELSE AnalysisFailed(vision, "save")
  /\ UNCHANGED exceptVision

InitVision == InitFrom({EmptyStore}, 2) /\ ServicesIdle

VisionAnswers == {"text", "empty", "error"}

NextVision ==
  \/ \E hasImage \in BOOLEAN, second \in BOOLEAN, bio \in {<<>>, <<"bio">>} :
       GetCharacterVisualDescription(hasImage, second, bio)
  \/ \E ok \in BOOLEAN : ReferenceFetchSettles(ok)
  \/ \E answer \in VisionAnswers : CharacterVisionSettles(answer)
  \/ \E n \in 1..MaxMedia : HandleAnalyze(n)
  \/ \E ok \in BOOLEAN : MediaFetchSettles(ok)
  \/ \E answer \in VisionAnswers : LocationVisionSettles(answer)
  \/ \E ok \in BOOLEAN : SaveLocationSettles(ok)

SpecVision == InitVision /\ [][NextVision]_vars

\* C37: a failure inside the character visual-description step (first
\* reference fetch, vision request) leaves the invocation at its image
\* request with the bio alone as description, and the step never rejects; a
\* failure of the second reference fetch alone keeps the one part of the
\* first reference and the description is what the vision request answers
\* for it; a failure of the location analysis started by the user (no media
\* loaded, vision request rejected) is shown as an error and leaves the
\* location's stored visual description as it was.
C37_DescriptionFailures ==
  /\ vision.fn = "character" =>
       /\ vision.phase \in {"fetch1", "fetch2", "vision", "generate"}
       /\ vision.failed \cap {"fetch1", "vision"} # {} =>
            /\ vision.phase = "generate"
            /\ vision.description = vision.bio
       /\ vision.failed = {"fetch2"} =>
            /\ vision.parts = 1
            /\ vision.phase \in {"vision", "generate"}
            /\ vision.phase = "generate" =>
                 vision.description \in
                   {Described(VisionText(a, 1), vision.bio) :
                      a \in {"text", "empty"}}
  /\ vision.fn = "location" /\ vision.failed \cap {"media", "vision"} # {} =>
       /\ vision.phase = "done"
       /\ vision.alert
       /\ vision.stored = vision.before

\* C37 witness: the vision request of a character with two references, whose
\* second fetch had succeeded, has rejected: the image request is made with
\* the bio
C37_Witness ==
  /\ vision.fn = "character" /\ vision.phase = "generate"
  /\ vision.failed = {"vision"} /\ vision.parts = 2
  /\ vision.description = <<"bio">>

\* C37 witness: the second reference alone failed and the description comes
\* from the first reference
C37_WitnessSecondSkipped ==
  /\ vision.fn = "character" /\ vision.phase = "generate"
  /\ vision.failed = {"fetch2"}
  /\ vision.description = <<"from 1 reference", "Context:", "bio">>

\* C37 witness: the analysis of a location that already has a stored
\* description has failed
C37_WitnessLocation ==
  /\ vision.fn = "location" /\ vision.phase = "done"
  /\ vision.failed = {"vision"} /\ vision.alert
  /\ vision.stored = <<"from 2 references">>

\* C38 (as claimed): in the exported player, while playback is paused the
\* shown panel index changes only by a step of the user (Next, Prev), never
\* by a timer.
C38_NoAdvanceWhilePaused ==
  [][(/\ player.screen = "hidden" /\ ~player.isPlaying
      /\ player'.currentIndex # player.currentIndex) =>
        player'.cause = "user"]_vars

\* C39 (as claimed): when generateVideos has answered, the invocation
\* enters the poll loop if the operation handle carries its name in name,
\* operation.name or metadata.name, and rejects for a missing operation
\* name only if the name is in none of them.
C39_NestedNameRecovered ==
  [][(videoCall.phase = "submit" /\ videoCall'.phase # "submit") =>
       IF videoCall'.handle # "none"
       THEN videoCall'.phase = "fetch"
       ELSE videoCall'.phase = "rejected" /\ videoCall'.error = "missing_name"
    ]_vars

====
